---- MODULE Spec2Model ----
(***************************************************************************)
(* A model of the GenUI chat backend (backend/services/llm.js and          *)
(* backend/routes/chat.js): the HTTP client with timeout and retry, the    *)
(* response parser, the source pipeline, the tool-call loop, the repair    *)
(* loop and the chat routes.  Each component has its own specification     *)
(* over its own group of variables; the other groups stay at their         *)
(* initial values.                                                         *)
(***************************************************************************)
EXTENDS Integers, Sequences, FiniteSets, TLC

VARIABLES
  \* ---- fetchWithRetry (llm.js:23-44) ----
  frPc,          \* "idle" | "top" | "delay" | "fetch" | "returned" | "thrown"
  maxRetries,    \* the maxRetries option of the call
  timeoutMs,     \* the timeoutMs option of the call
  frAttempt,     \* the loop variable `attempt`
  lastError,     \* the variable `lastError` (NoError while undefined)
  frCalls,       \* attempt numbers passed to fetchWithTimeout, in order
  frDelays,      \* the backoff delays awaited, in order (ms)
  frOutcome,     \* what the call returned or threw (NoOutcome while running)
  \* ---- parseResponse (llm.js:154-222) ----
  prPc,          \* "idle" | "called" | "done"
  prContent,     \* the argument `content`
  prOutcome,     \* what the call returned or threw
  \* ---- enrichSources (llm.js:610-641) ----
  esPc,          \* "idle" | "called" | "fetching" | "merging" | "returned"
  esSources,     \* the argument `sources`
  esMax,         \* the option `max`
  esOutOfOrder,  \* history: a fetch completed after one of a later source
  uniqueSources, \* dedupeSources(sources).slice(0, max)
  metadataList,  \* per unique source: its metadata, or Pending
  enriched,      \* the list `enriched` built by the merge loop
  \* ---- the planner after the provider answered (llm.js:886-909, 1120-1143) ----
  plPc,          \* "idle" | "extracted" | "enriching" | "sourced" | "planned"
  rawSources,    \* the sources collected from the provider's response
  basePlan,      \* the items of `basePlan`
  plItems,       \* plan.items as the model returned them (NotAnArray if absent)
  forceSourceItems, \* wantsWebSearchFromText(lastUserText)
  plUserText,    \* lastUserText of the planner (llm.js:899, 1133)
  enrichedSources,  \* the sources returned by enrichSources
  planWithImages,   \* the items of the returned plan
  pickLog,       \* the calls of pickBestSourceForItem made by attachImagesToPlan
  \* ---- callLLM and the main generation call (llm.js:912-966, 1146-1371) ----
  tlPc,          \* "idle" | "flow" | "planned" | "invoke" | "loop" | "returned" | "thrown"
  tlCaller,      \* who called callLLM: a route, or generateWithRepair
  plannerFailures, \* how many invocations of the planner threw
  provider,      \* the argument `provider`
  apiKeyConfigured, \* process.env holds the provider's API key
  plannerCalls,  \* the tools the planner passed to the provider, call by call
  keyErrors,     \* provider invocations that threw for the missing key
  httpInvocations, \* provider invocations that went on to fetchWithRetry
  webSearchEnabled,     \* shouldEnableWebSearch(messages, enableWebSearch)
  lastUserText,  \* getLastUserText(messages)
  imagePolicy,   \* getImagePolicy(lastUserText)
  allowImageGeneration, \* imagePolicy.mode !== 'none'
  imageCalls,    \* where the image generator was invoked from: "plan", "text", "tool"
  ctxSources,    \* context.sources
  tlAttempt,     \* the loop variable `attempt`
  tlData,        \* `data`: the provider's latest response (NoData before it)
  tlSources,     \* `sources`: the sources accumulated by the OpenAI loop
  tlInput,       \* what was appended to `input` / `contents`, in order
  tlToolOutputs, \* the tool results of the latest round
  tlInvocations, \* provider invocations made by the main generation call
  tlAllCalls,    \* every response so far carried at least one tool call
  tlOutcome,     \* what callLLM returned or threw
  \* ---- generateWithRepair (llm.js:1374-1407) ----
  gwPc,          \* "idle" | "loop" | "returned" | "thrown"
  gwMessages,    \* the argument `messages`
  gwError,       \* the argument `error`
  gwMaxRetries,  \* the argument `maxRetries`
  currentMessages, \* the working list `currentMessages`
  gwAttempt,     \* the loop variable `attempt`
  gwCalls,       \* the calls of callLLM made: the messages passed and the outcome
  gwOutcome,     \* what generateWithRepair returned or threw
  \* ---- the chat routes POST / and POST /repair (chat.js:18-64, 143-168) ----
  rtPc,          \* "idle" | "received" | "first" | "second" | "repair" | "done"
  rtRoute,       \* "/" or "/repair"
  rtBody,        \* req.body
  rtFirst,       \* the result of the first callLLM of POST /
  rtCalls,       \* the message lists passed to callLLM by POST /
  rtResponses,   \* the responses sent, in order
  rtUnhandled,   \* an exception left the handler
  callerMessages, \* the caller's messages array (req.body.messages), as it is now
  \* ---- the streaming route POST /stream (chat.js:67-140), run on the body
  \*      in rtBody next to POST / ----
  stPc,          \* "idle" | "received" | "first" | "second" | "done"
  stScript,      \* what the provider pipeline does: the outcome of the k-th callLLM
  stCalls,       \* the message lists passed to callLLM by POST /stream
  stEvents,      \* the SSE events written, in order
  stResponses,   \* the JSON responses sent with res.json
  stClosed,      \* the local `closed`: the request's close event was seen
  stEnded,       \* res.end() was called, or res.json ended the response
  stPingTimer,   \* the local `pingInterval`: "unset", "running" or "cleared"
  \* ---- buildOpenAIInput and buildGeminiContents (llm.js:250-336) ----
  atPc,          \* "idle" | "called" | "done"
  atAdapter,     \* "openai" for buildOpenAIInput, "gemini" for buildGeminiContents
  atMessages,    \* the argument `messages`
  atInclude,     \* the option includeAttachments
  atOutput,      \* the list returned
  \* ---- getImagePolicy (llm.js:403-409) ----
  ipPc,          \* "idle" | "called" | "done"
  ipText,        \* the argument `text`
  ipPolicy,      \* the policy returned
  \* ---- ensurePlanImages (llm.js:463-492) ----
  epPc,          \* "idle" | "loop" | "done"
  epItems,       \* the argument plan.items
  epMax,         \* the argument `max`
  epForce,       \* the argument `force`
  epIndex,       \* the position of the loop in plan.items
  generatedCount, \* the local `generatedCount`
  updatedItems,  \* the local `updatedItems`
  epGenerated,   \* what generateImageForPrompt returned, call by call
  epTried,       \* history: per item, what the generator did (NotTried: not invoked)
  epResult,      \* the items of the plan returned
  rdPc,          \* callOpenAIWithTools / callGeminiWithTools: where the call is
  rdProvider,    \* which of the two it is
  rdPolicy,      \* the argument imagePolicy
  rdInput,       \* the local `input` / `contents`
  rdInputs,      \* the inputs the provider was invoked with, in order
  rdData,        \* the local `data`: the last response
  rdOutputs,     \* the tool results of the last round executed
  rdAttempt,     \* the loop counter `attempt`
  rdGenerations, \* how often the image generator was invoked
  rdOutcome,     \* what the call returned or threw
  ivPc,          \* callOpenAIResponse / callGeminiApi: where the invocation is
  ivProvider,    \* which of the two it is
  ivKey,         \* whether the provider's API key is in the environment
  ivOutcome,     \* what the invocation returned or threw
  \* ---- the client chat state (ChatContext.jsx) ----
  clLoading,     \* state.isLoading
  clInFlight,    \* the sendMessage and repairError calls that have not finished
  clStarted,     \* how many calls were started
  clMessages,    \* the roles of state.messages
  clError,       \* state.error: "none" or "failed"
  clBanner       \* the error banner with the Auto-fix button is shown

httpVars == <<frPc, maxRetries, timeoutMs, frAttempt, lastError, frCalls,
              frDelays, frOutcome>>

parseVars == <<prPc, prContent, prOutcome>>

enrichVars == <<esPc, esSources, esMax, esOutOfOrder, uniqueSources, metadataList, enriched>>

planVars == <<plPc, rawSources, basePlan, plItems, forceSourceItems, plUserText, enrichedSources,
              planWithImages, pickLog>>

toolVars == <<tlPc, tlCaller, provider, apiKeyConfigured, plannerCalls, plannerFailures,
              keyErrors, httpInvocations,
              webSearchEnabled, lastUserText, imagePolicy,
              allowImageGeneration, imageCalls, ctxSources,
              tlAttempt, tlData, tlSources, tlInput, tlToolOutputs, tlInvocations,
              tlAllCalls, tlOutcome>>

repairVars == <<gwPc, gwMessages, gwError, gwMaxRetries, currentMessages, gwAttempt,
                gwCalls, gwOutcome>>

routeVars == <<rtPc, rtRoute, rtBody, rtFirst, rtCalls, rtResponses, rtUnhandled>>

policyVars == <<ipPc, ipText, ipPolicy>>

heapVars == <<callerMessages>>

streamVars == <<stPc, stScript, stCalls, stEvents, stResponses, stClosed, stEnded,
                stPingTimer>>

attachVars == <<atPc, atAdapter, atMessages, atInclude, atOutput>>

roundVars == <<rdPc, rdProvider, rdPolicy, rdInput, rdInputs, rdData, rdOutputs,
               rdAttempt, rdGenerations, rdOutcome>>

invokeVars == <<ivPc, ivProvider, ivKey, ivOutcome>>

clientVars == <<clLoading, clInFlight, clStarted, clMessages, clError, clBanner>>

imagesVars == <<epPc, epItems, epMax, epForce, epIndex, generatedCount, updatedItems,
                epGenerated, epTried, epResult>>

vars == <<httpVars, parseVars, enrichVars, planVars, toolVars, repairVars, routeVars,
          policyVars, imagesVars, heapVars, streamVars, attachVars, roundVars, invokeVars,
          clientVars>>

\* What the actions of one component leave alone.
HttpOnly ==
  UNCHANGED <<parseVars, enrichVars, planVars, toolVars, repairVars, routeVars, policyVars, imagesVars, heapVars, streamVars, attachVars, roundVars, invokeVars, clientVars>>
ParseOnly ==
  UNCHANGED <<httpVars, enrichVars, planVars, toolVars, repairVars, routeVars, policyVars, imagesVars, heapVars, streamVars, attachVars, roundVars, invokeVars, clientVars>>
PlanOnly ==
  UNCHANGED <<httpVars, parseVars, toolVars, repairVars, routeVars, policyVars, imagesVars, heapVars, streamVars, attachVars, roundVars, invokeVars, clientVars>>
ToolsOnly ==
  UNCHANGED <<httpVars, parseVars, enrichVars, planVars, repairVars, routeVars, policyVars, imagesVars, heapVars, streamVars, attachVars, roundVars, invokeVars, clientVars>>
ChatOnly ==
  UNCHANGED <<httpVars, parseVars, enrichVars, planVars, toolVars, policyVars, imagesVars,
              streamVars, attachVars, roundVars, invokeVars, clientVars>>
PolicyOnly ==
  UNCHANGED <<httpVars, parseVars, enrichVars, planVars, toolVars, repairVars, routeVars,
              imagesVars, heapVars, streamVars, attachVars, roundVars, invokeVars, clientVars>>
ImagesOnly ==
  UNCHANGED <<httpVars, parseVars, enrichVars, planVars, toolVars, repairVars, routeVars,
              policyVars, heapVars, streamVars, attachVars, roundVars, invokeVars, clientVars>>
StreamOnly ==
  UNCHANGED <<httpVars, parseVars, enrichVars, planVars, toolVars, repairVars, routeVars,
              policyVars, imagesVars, heapVars, attachVars, roundVars, invokeVars, clientVars>>
RoundOnly ==
  UNCHANGED <<httpVars, parseVars, enrichVars, planVars, toolVars, repairVars, routeVars,
              policyVars, imagesVars, heapVars, streamVars, attachVars, invokeVars, clientVars>>
InvokeOnly ==
  UNCHANGED <<parseVars, enrichVars, planVars, toolVars, repairVars, routeVars,
              policyVars, imagesVars, heapVars, streamVars, attachVars, roundVars, clientVars>>
AttachOnly ==
  UNCHANGED <<httpVars, parseVars, enrichVars, planVars, toolVars, repairVars, routeVars,
              policyVars, imagesVars, heapVars, streamVars, roundVars, invokeVars, clientVars>>

ClientOnly ==
  UNCHANGED <<httpVars, parseVars, enrichVars, planVars, toolVars, repairVars, routeVars,
              policyVars, imagesVars, heapVars, streamVars, attachVars, roundVars, invokeVars>>

(***************************************************************************)
(* Bounds of the model (not program constants).                            *)
(***************************************************************************)
MaxRetriesBound == 3
MaxTextLen == 3
MaxSources == 2
MaxItems == 2
MaxCited == 1
MaxRepairRetries == 3

(***************************************************************************)
(* HTTP client: fetchWithTimeout and fetchWithRetry.                       *)
(***************************************************************************)
NoError == [name |-> "undefined"]
NoOutcome == [kind |-> "none"]

\* llm.js:30  the backoff before attempt k is 1000 * k ms
BackoffUnitMs == 1000

\* The timeoutMs values the program passes: the default (llm.js:23), the
\* Gemini call (llm.js:995) and the OpenAI call (llm.js:726).
TimeoutChoices == {60000, 90000, 180000}

\* What the network can do with one request before the deadline, if it does
\* anything: answer (2xx or not) or fail with a transport error.
NetworkOutcomes == {"ok", "http500", "neterr"}

\* fetchWithTimeout: the timer and the request race.  When the timer fires
\* first the controller aborts the request and fetch rejects with an
\* AbortError; otherwise the request's own outcome is returned or thrown.
fetchWithTimeout(net, timerFirst, att) ==
  IF timerFirst
    THEN [kind |-> "throw", error |-> [name |-> "AbortError", attempt |-> att]]
    ELSE IF net = "neterr"
      THEN [kind |-> "throw", error |-> [name |-> "FetchError", attempt |-> att]]
      ELSE [kind |-> "return",
            response |-> [ok |-> (net = "ok"),
                          status |-> IF net = "ok" THEN 200 ELSE 500,
                          attempt |-> att]]

\* llm.js:26  the loop condition attempt <= maxRetries
LoopContinuesOffByOne(att, n) == att < n
LoopContinues(att, n) == att <= n

\* llm.js:37  the test for a cancelled (timed-out) attempt
IsAbortErrorNever(error) == FALSE
IsAbortError(error) == error.name = "AbortError"

\* llm.js:38  the error thrown on a timed-out attempt
TimeoutError(ms) == [name |-> "Error", message |-> <<"Request timed out after", ms, "ms">>]

ParseInit ==
  /\ prPc = "idle"
  /\ prContent = [t |-> "null"]
  /\ prOutcome = [kind |-> "none"]

HttpInit ==
  /\ frPc = "idle"
  /\ maxRetries = 0
  /\ timeoutMs = 60000
  /\ frAttempt = 0
  /\ lastError = NoError
  /\ frCalls = <<>>
  /\ frDelays = <<>>
  /\ frOutcome = NoOutcome

EnrichInit ==
  /\ esPc = "idle"
  /\ esSources = <<>>
  /\ esMax = 6
  /\ esOutOfOrder = FALSE
  /\ uniqueSources = <<>>
  /\ metadataList = <<>>
  /\ enriched = <<>>

PlanInit ==
  /\ plPc = "idle"
  /\ rawSources = <<>>
  /\ basePlan = <<>>
  /\ plItems = <<>>
  /\ forceSourceItems = FALSE
  /\ plUserText = <<>>
  /\ enrichedSources = <<>>
  /\ planWithImages = <<>>
  /\ pickLog = <<>>

NoData == [seq |-> 0, calls |-> <<>>, text |-> <<>>, sources |-> <<>>]

ToolsInit ==
  /\ tlPc = "idle"
  /\ tlCaller = "route"
  /\ plannerFailures = 0
  /\ provider = "gemini"
  /\ apiKeyConfigured = TRUE
  /\ plannerCalls = <<>>
  /\ keyErrors = 0
  /\ httpInvocations = 0
  /\ webSearchEnabled = FALSE
  /\ lastUserText = <<>>
  /\ imagePolicy = [mode |-> "none", max |-> 0]
  /\ allowImageGeneration = FALSE
  /\ imageCalls = {}
  /\ ctxSources = <<>>
  /\ tlAttempt = 0
  /\ tlData = NoData
  /\ tlSources = <<>>
  /\ tlInput = <<>>
  /\ tlToolOutputs = <<>>
  /\ tlInvocations = 0
  /\ tlAllCalls = TRUE
  /\ tlOutcome = NoOutcome

RepairInit ==
  /\ gwPc = "idle"
  /\ gwMessages = <<>>
  /\ gwError = <<>>
  /\ gwMaxRetries = 3
  /\ currentMessages = <<>>
  /\ gwAttempt = 0
  /\ gwCalls = <<>>
  /\ gwOutcome = NoOutcome

RouteInit ==
  /\ rtPc = "idle"
  /\ rtRoute = "/"
  /\ rtBody = [none |-> TRUE]
  /\ rtFirst = NoOutcome
  /\ rtCalls = <<>>
  /\ rtResponses = <<>>
  /\ rtUnhandled = FALSE
  /\ callerMessages = <<>>

PolicyInit ==
  /\ ipPc = "idle"
  /\ ipText = <<>>
  /\ ipPolicy = [mode |-> "none", max |-> 0]

StreamInit ==
  /\ stPc = "idle"
  /\ stScript = <<>>
  /\ stCalls = <<>>
  /\ stEvents = <<>>
  /\ stResponses = <<>>
  /\ stClosed = FALSE
  /\ stEnded = FALSE
  /\ stPingTimer = "unset"

AttachInit ==
  /\ atPc = "idle"
  /\ atAdapter = "openai"
  /\ atMessages = <<>>
  /\ atInclude = TRUE
  /\ atOutput = <<>>

ImagesInit ==
  /\ epPc = "idle"
  /\ epItems = <<>>
  /\ epMax = 0
  /\ epForce = FALSE
  /\ epIndex = 0
  /\ generatedCount = 0
  /\ updatedItems = <<>>
  /\ epGenerated = <<>>
  /\ epTried = <<>>
  /\ epResult = <<>>

RoundInit ==
  /\ rdPc = "idle"
  /\ rdProvider = "openai"
  /\ rdPolicy = [mode |-> "none", max |-> 0]
  /\ rdInput = <<>>
  /\ rdInputs = <<>>
  /\ rdData = [seq |-> 0, calls |-> <<>>]
  /\ rdOutputs = <<>>
  /\ rdAttempt = 0
  /\ rdGenerations = 0
  /\ rdOutcome = NoOutcome

InvokeInit ==
  /\ ivPc = "idle"
  /\ ivProvider = "openai"
  /\ ivKey = TRUE
  /\ ivOutcome = NoOutcome

\* ChatContext.jsx:6-14  initialState
ClientInit ==
  /\ clLoading = FALSE
  /\ clInFlight = {}
  /\ clStarted = 0
  /\ clMessages = <<>>
  /\ clError = "none"
  /\ clBanner = FALSE

\* Every component before its first call.
InitAll ==
  /\ HttpInit /\ ParseInit /\ EnrichInit /\ PlanInit /\ ToolsInit /\ RepairInit
  /\ RouteInit /\ PolicyInit /\ ImagesInit /\ StreamInit /\ AttachInit /\ RoundInit
  /\ InvokeInit /\ ClientInit

\* llm.js:23-26  a call of fetchWithRetry with its options
FetchWithRetryCall ==
  /\ frPc = "idle"
  /\ \E n \in 0..MaxRetriesBound, ms \in TimeoutChoices :
       /\ maxRetries' = n
       /\ timeoutMs' = ms
  /\ frPc' = "top"
  /\ frAttempt' = 0
  /\ UNCHANGED <<lastError, frCalls, frDelays, frOutcome>>
  /\ HttpOnly

\* llm.js:26  the loop test; llm.js:43 after the loop
FetchLoopTest ==
  /\ frPc = "top"
  /\ IF LoopContinues(frAttempt, maxRetries)
       THEN /\ frPc' = IF frAttempt > 0 THEN "delay" ELSE "fetch"
            /\ UNCHANGED frOutcome
       ELSE /\ frPc' = "thrown"
            /\ frOutcome' = [kind |-> "throw", error |-> lastError]
  /\ UNCHANGED <<maxRetries, timeoutMs, frAttempt, lastError, frCalls, frDelays>>
  /\ HttpOnly

\* llm.js:28-31  the backoff delay before a retry
FetchBackoff ==
  /\ frPc = "delay"
  /\ frDelays' = Append(frDelays, BackoffUnitMs * frAttempt)
  /\ frPc' = "fetch"
  /\ UNCHANGED <<maxRetries, timeoutMs, frAttempt, lastError, frCalls, frOutcome>>
  /\ HttpOnly

\* llm.js:32-40  one attempt: return the response, or catch the error
FetchAttempt ==
  /\ frPc = "fetch"
  /\ frCalls' = Append(frCalls, frAttempt)
  /\ \E net \in NetworkOutcomes, timerFirst \in BOOLEAN :
       LET r == fetchWithTimeout(net, timerFirst, frAttempt) IN
       IF r.kind = "return"
         THEN /\ frPc' = "returned"
              /\ frOutcome' = r
              /\ UNCHANGED <<lastError, frAttempt>>
         ELSE /\ lastError' = r.error
              /\ IF IsAbortError(r.error)
                   THEN /\ frPc' = "thrown"
                        /\ frOutcome' = [kind |-> "throw", error |-> TimeoutError(timeoutMs)]
                        /\ UNCHANGED frAttempt
                   ELSE /\ frPc' = "top"
                        /\ frAttempt' = frAttempt + 1
                        /\ UNCHANGED frOutcome
  /\ UNCHANGED <<maxRetries, timeoutMs, frDelays>>
  /\ HttpOnly

HttpNext == FetchWithRetryCall \/ FetchLoopTest \/ FetchBackoff \/ FetchAttempt

SpecHttp == InitAll /\ [][HttpNext]_vars

\* C4: fetchWithRetry makes at most maxRetries + 1 attempts, numbered
\* 0..maxRetries in order; before attempt k >= 1 it has waited k * 1000 ms
\* (and it waits at no other time); when every attempt failed with a
\* non-timeout error it has made exactly maxRetries + 1 attempts and throws
\* the error of the last attempt unchanged; a response is returned by the
\* attempt that got it, which is the last attempt made.
C4_RetryBudget ==
  /\ Len(frCalls) <= maxRetries + 1
  /\ \A i \in 1..Len(frCalls) : frCalls[i] = i - 1
  /\ \A i \in 1..Len(frDelays) : frDelays[i] = i * 1000
  /\ Len(frDelays) = (IF frPc = "fetch" THEN Len(frCalls)
                                        ELSE IF Len(frCalls) = 0 THEN 0 ELSE Len(frCalls) - 1)
  /\ (frPc = "thrown" /\ lastError.name # "AbortError") =>
        /\ Len(frCalls) = maxRetries + 1
        /\ frOutcome = [kind |-> "throw",
                        error |-> [name |-> "FetchError", attempt |-> maxRetries]]
  /\ frPc = "returned" =>
        /\ frOutcome.kind = "return"
        /\ frOutcome.response.attempt = frCalls[Len(frCalls)]
  /\ frOutcome.kind = "return" => frPc = "returned"

\* C4 witness: two retries were allowed, all three attempts failed with a
\* transport error and the call threw after waiting 1000 and 2000 ms.
C4_Witness ==
  /\ frPc = "thrown"
  /\ maxRetries = 2
  /\ Len(frCalls) = 3
  /\ frDelays = <<1000, 2000>>
  /\ lastError.name = "FetchError"

\* C5: once an attempt is cancelled by the deadline the call has failed with
\* 'Request timed out after <timeoutMs>ms' and the cancelled attempt is the
\* last attempt made, whatever number of retries remains.
C5_TimeoutFailsFast ==
  lastError.name = "AbortError" =>
    /\ frPc = "thrown"
    /\ frOutcome = [kind |-> "throw",
                    error |-> [name |-> "Error",
                               message |-> <<"Request timed out after", timeoutMs, "ms">>]]
    /\ Len(frCalls) = lastError.attempt + 1

\* C5 witness: the second of four allowed attempts timed out and the call
\* threw with two retries unused.
C5_Witness ==
  /\ frPc = "thrown"
  /\ lastError.name = "AbortError"
  /\ maxRetries = 3
  /\ Len(frCalls) = 2

(***************************************************************************)
(* Response parser: parseResponse (llm.js:154-222).                        *)
(*                                                                         *)
(* A text is a sequence of tokens.  Each token stands for a piece of       *)
(* text that the parser's regular expressions and JSON.parse tell apart:   *)
(*   FJ  ```json          F   ```            WS  white space               *)
(*   LB  {                RB  }              LBK [                         *)
(*   TS  "type":"sandbox" TM  "type":"message"                             *)
(*   KC  "code":          (followed by an object)                          *)
(*   APP "App.js":"<escaped x>"     CSS "styles.css":"<escaped y>"         *)
(*   APPBAD "App.js":"<string with an invalid escape>"                     *)
(*   CSSBAD "styles.css":"<string with an invalid escape>"                 *)
(*   APPMD  "App.js":"<escaped x that holds the block ```json z ```>"      *)
(*   TXT plain words      REACT  function App() ...                        *)
(* Commas between members are left implicit.                               *)
(***************************************************************************)
Tokens == {"FJ", "F", "WS", "LB", "RB", "LBK", "TS", "TM", "KC", "APP",
           "APPBAD", "APPMD", "CSS", "CSSBAD", "TXT", "REACT"}

\* The escaped string literal a field token carries, as the salvage regular
\* expressions capture it (llm.js:192-193).
RawOf(tok) ==
  CASE tok = "APP" -> "x\\n"
    [] tok = "CSS" -> "y\\n"
    [] tok = "APPBAD" -> "x\\q"
    [] tok = "CSSBAD" -> "y\\q"
    [] tok = "APPMD" -> "x<fence>json z<fence>\\n"
    [] OTHER -> ""

\* JSON.parse('"' + raw + '"'): the unescaped string, or a SyntaxError.
UnescapeAsIs(raw) == [ok |-> TRUE, str |-> raw]
Unescape(raw) ==
  CASE raw = "x\\n" -> [ok |-> TRUE, str |-> "x<LF>"]
    [] raw = "y\\n" -> [ok |-> TRUE, str |-> "y<LF>"]
    [] raw = "x<fence>json z<fence>\\n" -> [ok |-> TRUE, str |-> "x<fence>json z<fence><LF>"]
    [] raw = "" -> [ok |-> TRUE, str |-> ""]
    [] OTHER -> [ok |-> FALSE, str |-> ""]

RECURSIVE StripLeadingWs(_)
StripLeadingWs(t) ==
  IF t # <<>> /\ Head(t) = "WS" THEN StripLeadingWs(Tail(t)) ELSE t

RECURSIVE StripTrailingWs(_)
StripTrailingWs(t) ==
  IF t # <<>> /\ t[Len(t)] = "WS" THEN StripTrailingWs(SubSeq(t, 1, Len(t) - 1)) ELSE t

\* String.prototype.trim
Trim(t) == StripTrailingWs(StripLeadingWs(t))

\* replace(/^```json\s*/i, '')
StripFenceJsonStart(t) ==
  IF t # <<>> /\ Head(t) = "FJ" THEN StripLeadingWs(Tail(t)) ELSE t

\* replace(/^```\s*/i, ''): the pattern also matches the first three
\* characters of ```json and then leaves the word json behind
StripFenceStart(t) ==
  IF t # <<>> /\ Head(t) = "F" THEN StripLeadingWs(Tail(t))
  ELSE IF t # <<>> /\ Head(t) = "FJ" THEN <<"TXT">> \o Tail(t)
  ELSE t

\* replace(/\s*```$/i, '')
StripFenceEnd(t) ==
  IF t # <<>> /\ t[Len(t)] = "F" THEN StripTrailingWs(SubSeq(t, 1, Len(t) - 1)) ELSE t

IndexSet(t, S) == {i \in 1..Len(t) : t[i] \in S}
Min(S) == CHOOSE x \in S : \A y \in S : x <= y
Max(S) == CHOOSE x \in S : \A y \in S : x >= y

\* F applied to the value of x (and of y): the argument is evaluated once,
\* as JavaScript evaluates the argument of a call
Call1(F(_), x) == CHOOSE r \in {F(v) : v \in {x}} : TRUE
Call2(F(_, _), x, y) == CHOOSE r \in {F(v, w) : v \in {x}, w \in {y}} : TRUE

\* cleaned.match(/```json\s*([\s\S]*?)\s*```/i): the text between the first
\* ```json and the next ``` (which may be the start of another ```json).
\* The pattern does not know of JSON strings: a block inside the App.js
\* string matches as well, and a match that starts before such a string ends
\* at the string's first fence, after the start of the field (plain text to
\* the rest of the parser: a key with an unfinished string).
FencedBlock(t) ==
  LET starts == IndexSet(t, {"FJ", "APPMD"}) IN
  IF starts = {} THEN [found |-> FALSE, inner |-> <<>>]
  ELSE LET i == Min(starts)
           ends == {j \in IndexSet(t, {"F", "FJ", "APPMD"}) : j > i} IN
       IF t[i] = "APPMD" THEN [found |-> TRUE, inner |-> <<"TXT">>]
       ELSE IF ends = {} THEN [found |-> FALSE, inner |-> <<>>]
       ELSE [found |-> TRUE,
             inner |-> Trim(SubSeq(t, i + 1, Min(ends) - 1)
                             \o (IF t[Min(ends)] = "APPMD" THEN <<"TXT">> ELSE <<>>))]

\* JSON values.  An object is a record of the members the parser looks at;
\* a member that is missing is Absent.
Absent == [absent |-> TRUE]
Str(x) == [str |-> x]
EmptyObject == [type |-> Absent, code |-> Absent, appjs |-> Absent, css |-> Absent]
ParseFailure == [ok |-> FALSE, next |-> 0, val |-> EmptyObject]

RECURSIVE SkipWs(_, _)
SkipWs(t, i) == IF i <= Len(t) /\ t[i] = "WS" THEN SkipWs(t, i + 1) ELSE i

\* The members of an object from position i up to its closing brace; a
\* later member with the same key replaces an earlier one.
RECURSIVE ParseMembers(_, _, _)
ParseMembers(t, i, acc) ==
  IF i > Len(t) THEN ParseFailure
  ELSE CASE t[i] = "WS" -> ParseMembers(t, i + 1, acc)
         [] t[i] = "RB" -> [ok |-> TRUE, next |-> i + 1, val |-> acc]
         [] t[i] = "TS" -> ParseMembers(t, i + 1, [acc EXCEPT !.type = Str("sandbox")])
         [] t[i] = "TM" -> ParseMembers(t, i + 1, [acc EXCEPT !.type = Str("message")])
         [] t[i] \in {"APP", "APPMD"} ->
              ParseMembers(t, i + 1, [acc EXCEPT !.appjs = Str(Unescape(RawOf(t[i])).str)])
         [] t[i] = "CSS" ->
              ParseMembers(t, i + 1, [acc EXCEPT !.css = Str(Unescape(RawOf("CSS")).str)])
         [] t[i] = "KC" ->
              LET j == SkipWs(t, i + 1) IN
              IF j <= Len(t) /\ t[j] = "LB"
                THEN LET r == ParseMembers(t, j + 1, EmptyObject) IN
                     IF r.ok THEN ParseMembers(t, r.next, [acc EXCEPT !.code = r.val])
                             ELSE ParseFailure
                ELSE ParseFailure
         [] OTHER -> ParseFailure

\* JSON.parse of a text that starts with { and ends with }: the object, or
\* a SyntaxError (ok = FALSE).
JsonParse(t) ==
  IF t = <<>> \/ t[1] # "LB" THEN ParseFailure
  ELSE LET r == ParseMembers(t, 2, EmptyObject) IN
       IF r.ok /\ r.next = Len(t) + 1 THEN r ELSE ParseFailure

\* What parseResponse is called with: null, a number, or a string.
NullContent == [t |-> "null"]
NumberContent(n) == [t |-> "number", n |-> n]
StringContent(toks) == [t |-> "string", toks |-> toks]

\* !content || typeof content !== 'string'  (llm.js:155)
IsFalsy(c) ==
  \/ c.t = "null"
  \/ c.t = "number" /\ c.n = 0
  \/ c.t = "string" /\ c.toks = <<>>

MessageResult(c) == [type |-> Str("message"), content |-> c]
FailedToParse == [type |-> Str("message"),
                  content |-> Str("Failed to parse app response. Please try again.")]
SandboxResult(app, css) == [type |-> Str("sandbox"), code |-> [appjs |-> app, css |-> css]]

Returns(v) == [kind |-> "return", value |-> v]
Throws(e) == [kind |-> "throw", error |-> e]

\* llm.js:161-167  remove the fences
CleanFences(toks) ==
  LET c0 == Trim(toks)
      c1 == StripFenceEnd(StripFenceJsonStart(c0))
      c2 == StripFenceEnd(StripFenceStart(c1))
      m == FencedBlock(c2)
  IN IF m.found THEN Trim(m.inner) ELSE c2

\* llm.js:204-206  the catch around the two unescaping JSON.parse calls
UnescapeFailureEscapes(e) == Throws(e)
UnescapeFailureCaught(e) == Returns(<<FailedToParse>>)

\* llm.js:189-210  the catch branch: salvage of App.js and styles.css
Salvage(cleaned) ==
  LET codeIdx == IndexSet(cleaned, {"APP", "APPBAD", "APPMD"})
      cssIdx == IndexSet(cleaned, {"CSS", "CSSBAD"})
  IN IF codeIdx = {} THEN Returns(<<FailedToParse>>)
     ELSE LET appCode == Unescape(RawOf(cleaned[Min(codeIdx)]))
              cssCode == IF cssIdx # {} THEN Unescape(RawOf(cleaned[Min(cssIdx)]))
                                        ELSE [ok |-> TRUE, str |-> ""]
          IN IF appCode.ok /\ cssCode.ok
               THEN Returns(<<SandboxResult(Str(appCode.str), Str(cssCode.str))>>)
               ELSE UnescapeFailureCaught("SyntaxError")

\* llm.js:154-222
parseResponse(content) ==
  IF IsFalsy(content) \/ content.t # "string"
    THEN Returns(<<MessageResult(IF IsFalsy(content) THEN Str("") ELSE content)>>)
  ELSE
    LET cleaned == CleanFences(content.toks)
        trimmedCleaned == Trim(cleaned)
        looksLikeJson == trimmedCleaned # <<>> /\ trimmedCleaned[1] \in {"LB", "LBK"}
        starts == IndexSet(cleaned, {"LB"})
        ends == IndexSet(cleaned, {"RB"})
        rawReact == ~looksLikeJson /\ IndexSet(cleaned, {"REACT"}) # {}
        tail == IF rawReact
                  THEN Returns(<<SandboxResult(StringContent(cleaned), Str(""))>>)
                  ELSE Returns(<<MessageResult(content)>>)
    IN IF looksLikeJson /\ starts # {} /\ ends # {} /\ Max(ends) > Min(starts)
         THEN LET p == JsonParse(SubSeq(cleaned, Min(starts), Max(ends))) IN
              IF ~p.ok THEN Salvage(cleaned)
              ELSE IF p.val.type = Str("sandbox") /\ p.val.code # Absent
                THEN Returns(<<p.val>>)
              ELSE IF p.val.type # Absent THEN Returns(<<p.val>>)
              ELSE tail
         ELSE tail

\* All token sequences of length at most n.
RECURSIVE SeqsUpTo(_, _)
SeqsUpTo(S, n) ==
  IF n = 0 THEN {<<>>}
  ELSE LET shorter == SeqsUpTo(S, n - 1) IN
       shorter \cup {Append(t, x) : t \in shorter, x \in S}

\* Longer texts of the shapes the model is asked for (README.md:130-142) and
\* of the shapes the salvage path is written for.
SampleBodies ==
  { <<"LB", "TS", "KC", "LB", "APP", "CSS", "RB", "RB">>,          \* the contract
    <<"LB", "TS", "KC", "LB", "APP", "RB", "RB">>,                 \* no stylesheet
    <<"LB", "TS", "KC", "LB", "APP", "CSS", "RB", "TXT", "RB">>,   \* broken wrapper
    <<"LB", "TS", "KC", "LB", "APP", "TXT", "RB", "RB">>,          \* broken, no css
    <<"LB", "TS", "KC", "LB", "APPBAD", "CSS", "RB", "RB">>,       \* bad escape
    <<"LB", "TS", "KC", "LB", "CSS", "TXT", "RB", "RB">>,          \* broken, no App.js
    <<"LB", "KC", "LB", "APP", "CSS", "RB", "RB">>,                \* no type
    <<"LBK", "LB", "TS", "KC", "LB", "APP", "CSS", "RB", "RB">>,   \* inside an array
    <<"LB", "TM", "RB", "LB", "TS", "RB">>,                        \* two objects
    <<"LB", "TS", "KC", "LB", "APPMD", "CSS", "RB", "RB">>,        \* code shows markdown
    <<"LB", "TS", "KC", "LB", "APP", "CSSBAD", "RB", "RB">> }      \* bad escape in css

SampleWraps ==
  { <<<<>>, <<>>>>,
    <<<<"FJ", "WS">>, <<"WS", "F">>>>,
    <<<<"F", "WS">>, <<"WS", "F">>>>,
    <<<<"TXT", "WS", "FJ", "WS">>, <<"WS", "F", "WS", "TXT">>>>,
    <<<<"WS", "FJ">>, <<>>>> }

SampleTexts == {w[1] \o b \o w[2] : b \in SampleBodies, w \in SampleWraps}

ParseInputs ==
  {NullContent, NumberContent(0), NumberContent(5)}
    \cup {StringContent(t) : t \in SeqsUpTo(Tokens, MaxTextLen) \cup SampleTexts}

\* A call parseResponse(content)
ParseCall ==
  /\ prPc = "idle"
  /\ \E c \in ParseInputs : prContent' = c
  /\ prPc' = "called"
  /\ UNCHANGED prOutcome
  /\ ParseOnly

\* llm.js:154-222  the call runs to its return (or throw)
ParseRun ==
  /\ prPc = "called"
  /\ prOutcome' = parseResponse(prContent)
  /\ prPc' = "done"
  /\ UNCHANGED prContent
  /\ ParseOnly

ParseNext == ParseCall \/ ParseRun

SpecParse == InitAll /\ [][ParseNext]_vars

\* C3: parseResponse never throws; for every input it returns a list of
\* exactly one result, and that result carries a type tag: sandbox, message,
\* or the type of the object that was parsed.
C3_ParseNeverThrows ==
  prPc = "done" =>
    /\ prOutcome.kind = "return"
    /\ Len(prOutcome.value) = 1
    /\ prOutcome.value[1].type \in {Str("sandbox"), Str("message")}

\* C3 witness: the JSON wrapper fails to parse, App.js is found by the
\* salvage, its unescaping fails, and the generic failure message is returned.
C3_Witness ==
  /\ prPc = "done"
  /\ prContent = StringContent(<<"LB", "APPBAD", "RB">>)
  /\ prOutcome = Returns(<<FailedToParse>>)

(***************************************************************************)
(* Source pipeline: dedupeSources, fallbackImageUrl, enrichSources.        *)
(*                                                                         *)
(* A JavaScript string is a sequence of characters; null and undefined are *)
(* the one-symbol sequence Null.  Characters are ASCII letters, K (a       *)
(* letter outside ASCII), a blank, and ! / : - (ASCII punctuation).        *)
(***************************************************************************)
Null == <<"<null>">>

\* JavaScript truthiness of a string-or-null value, and a || b
Falsy(v) == v = Null \/ v = <<>>
Or(a, b) == IF Falsy(a) THEN b ELSE a

\* obj?.field for a field the object may lack
Get(r, f) == IF f \in DOMAIN r THEN r[f] ELSE Null

\* { ...a, ...b }
Spread(a, b) == [f \in DOMAIN a \cup DOMAIN b |-> IF f \in DOMAIN b THEN b[f] ELSE a[f]]

IndexOfUrl(list, url) ==
  LET hits == {k \in 1..Len(list) : list[k].url = url} IN
  IF hits = {} THEN 0 ELSE Min(hits)

\* llm.js:360-368  the loop over the sources; `map` keeps insertion order
RECURSIVE DedupeLoop(_, _, _)
DedupeLoop(sources, i, map) ==
  IF i > Len(sources) THEN map
  ELSE LET source == sources[i]
           k == IndexOfUrl(map, source.url)
       IN IF Falsy(source.url) THEN DedupeLoop(sources, i + 1, map)
          ELSE IF k = 0 THEN DedupeLoop(sources, i + 1, Append(map, source))
          ELSE DedupeLoop(sources, i + 1, [map EXCEPT ![k] = Spread(map[k], source)])

RECURSIVE DropEmptyUrls(_)
DropEmptyUrls(sources) ==
  IF sources = <<>> THEN <<>>
  ELSE IF Falsy(Head(sources).url) THEN DropEmptyUrls(Tail(sources))
  ELSE <<Head(sources)>> \o DropEmptyUrls(Tail(sources))

\* llm.js:358-370
dedupeSourcesKeepsAll(sources) == DropEmptyUrls(sources)
dedupeSources(sources) == DedupeLoop(sources, 1, <<>>)

\* Array.prototype.slice(0, n)
Slice(list, n) == SubSeq(list, 1, IF Len(list) < n THEN Len(list) ELSE n)

IsAlnum(c) == c \notin {"K", " ", "!", "/", ":", "-"}

\* replace(/[^a-z0-9]+/gi, '-'): every run of other characters becomes one -
RECURSIVE ReplaceNonAlnumRuns(_, _)
ReplaceNonAlnumRuns(t, inRun) ==
  IF t = <<>> THEN <<>>
  ELSE IF IsAlnum(Head(t)) THEN <<Head(t)>> \o ReplaceNonAlnumRuns(Tail(t), FALSE)
  ELSE IF inRun THEN ReplaceNonAlnumRuns(Tail(t), TRUE)
  ELSE <<"-">> \o ReplaceNonAlnumRuns(Tail(t), TRUE)

\* llm.js:373  the longest seed kept
SeedMaxLen == 60

Genui == <<"g", "e", "n", "u", "i">>

\* llm.js:372-375  (the caller always passes a string)
fallbackImageUrl(seed) ==
  LET safeSeed == Or(Slice(ReplaceNonAlnumRuns(seed, FALSE), SeedMaxLen), Genui)
  IN <<"https://picsum.photos/seed/">> \o safeSeed \o <<"/800/500">>

\* The urls and titles of the model.
U1 == <<"a", ":", "/", "a">>
U2 == <<"a", ":", "/", "b">>
Urls == {<<>>, U1, U2}
SourceTitles == {<<>>, <<"a">>, <<"K", "!">>}

\* What extractOpenAISources / extractGeminiSources collect before they
\* deduplicate (llm.js:563-567, 576-580, 599-603)
RawSources == {[title |-> t, url |-> u, image |-> Null] : t \in SourceTitles, u \in Urls}

\* fetchUrlMetadata never throws: it returns the page's metadata, or empty
\* fields when the fetch failed.
MetadataFailed(url) ==
  [url |-> url, title |-> <<>>, description |-> <<>>, image |-> Null,
   success |-> FALSE, error |-> <<"b">>]
MetadataFound(url) ==
  [url |-> url, title |-> <<"b">>, description |-> <<"a", " ", "b">>,
   image |-> url \o <<"/", "b">>, success |-> TRUE]
Pending == [pending |-> TRUE]

\* saveRemoteImage({url}): {filename, url}, or null when the image is not
\* cached.
CachedImage(url) == [filename |-> <<"b">>, url |-> <<"/", "a", "/">> \o url]

\* llm.js:636  image_fallback of a merged source
ImageFallbackOfCachedOnly(merged) == Get(merged, "image_cached")
ImageFallbackOf(merged) ==
  Or(Get(merged, "image_cached"), fallbackImageUrl(Or(merged.title, merged.url)))

\* llm.js:621-637  one round of the merge loop; cacheOk tells whether
\* saveRemoteImage returns an image
EnrichOne(source, metadata, cacheOk) ==
  LET merged0 == Spread(source,
                   [title |-> Or(source.title, Or(Get(metadata, "title"), <<>>)),
                    description |-> Or(Get(metadata, "description"),
                                       Or(Get(source, "description"), <<>>)),
                    image |-> Or(Get(metadata, "image"), Or(Get(source, "image"), Null))])
      merged1 == IF ~Falsy(merged0.image) /\ cacheOk
                   THEN Spread(merged0, [image_cached |-> CachedImage(merged0.image).url])
                   ELSE merged0
  IN Spread(merged1, [image_fallback |-> ImageFallbackOf(merged1)])

(***************************************************************************)
(* Matching plan items to sources: normalizeForMatch, scoreTitleMatch,     *)
(* pickBestSourceForItem, attachImagesToPlan, buildItemsFromSources.       *)
(***************************************************************************)
\* toLowerCase, then the punctuation class of llm.js:496 becomes a blank
LowerOrBlank(c) ==
  IF c = "A" THEN "a"
  ELSE IF c = "S" THEN "s"
  ELSE IF c \in {" ", "!", "/", ":", "-"} THEN " "
  ELSE c

\* replace(/\s+/g, ' ')
RECURSIVE CollapseBlanks(_, _)
CollapseBlanks(t, afterBlank) ==
  IF t = <<>> THEN <<>>
  ELSE IF Head(t) = " "
    THEN (IF afterBlank THEN <<>> ELSE <<" ">>) \o CollapseBlanks(Tail(t), TRUE)
    ELSE <<Head(t)>> \o CollapseBlanks(Tail(t), FALSE)

RECURSIVE TrimBlanksLeft(_)
TrimBlanksLeft(t) == IF t # <<>> /\ Head(t) = " " THEN TrimBlanksLeft(Tail(t)) ELSE t

RECURSIVE TrimBlanksRight(_)
TrimBlanksRight(t) ==
  IF t # <<>> /\ t[Len(t)] = " " THEN TrimBlanksRight(SubSeq(t, 1, Len(t) - 1)) ELSE t

\* llm.js:493-499  (an undefined text takes the default '')
normalizeForMatch(text) ==
  LET str == IF text = Null THEN <<>> ELSE text
      lowered == [i \in 1..Len(str) |-> LowerOrBlank(str[i])]
  IN Call1(TrimBlanksRight, Call1(TrimBlanksLeft, Call2(CollapseBlanks, lowered, FALSE)))

\* String.prototype.includes
Includes(l, r) == \E i \in 0..(Len(l) - Len(r)) : SubSeq(l, i + 1, i + Len(r)) = r

\* split(' ').filter(Boolean) as a set of words
RECURSIVE WordsOf(_, _)
WordsOf(t, word) ==
  IF t = <<>> THEN (IF word = <<>> THEN {} ELSE {word})
  ELSE IF Head(t) = " "
    THEN (IF word = <<>> THEN {} ELSE {word}) \cup WordsOf(Tail(t), <<>>)
    ELSE WordsOf(Tail(t), Append(word, Head(t)))

\* A score is the fraction n / d.
Score(n, d) == [n |-> n, d |-> d]
Greater(x, y) == x.n * y.d > y.n * x.d
MaxScore(x, y) == IF Greater(y, x) THEN y ELSE x

\* llm.js:504-518  the score of two normalized titles
ScoreNormalized(left, right) ==
  LET leftTokens == WordsOf(left, <<>>)
      rightTokens == WordsOf(right, <<>>)
      common == Cardinality(leftTokens \cap rightTokens)
      larger == IF Cardinality(leftTokens) > Cardinality(rightTokens)
                  THEN Cardinality(leftTokens) ELSE Cardinality(rightTokens)
  IN IF left = <<>> \/ right = <<>> THEN Score(0, 1)
     ELSE IF left = right THEN Score(3, 1)
     ELSE IF Includes(left, right) \/ Includes(right, left) THEN Score(2, 1)
     ELSE IF leftTokens = {} \/ rightTokens = {} THEN Score(0, 1)
     ELSE IF common = 0 THEN Score(0, 1)
     ELSE Score(common, larger)

\* llm.js:501-519
scoreTitleMatch(a, b) == Call2(ScoreNormalized, normalizeForMatch(a), normalizeForMatch(b))

\* llm.js:529-540  the score of one source for the item
ItemScore(item, source) ==
  LET preferredTitle == Or(Get(item, "source_title"), Or(Get(item, "title"), <<>>))
  IN MaxScore(scoreTitleMatch(preferredTitle, source.title),
              scoreTitleMatch(Get(item, "title"), source.title))

\* llm.js:542-545  `best` is replaced only by a strictly greater score
BestAfterOrEqual(best, bestScore, i, score) ==
  IF ~Greater(bestScore, score) THEN [best |-> i, bestScore |-> score]
                                ELSE [best |-> best, bestScore |-> bestScore]
BestAfter(best, bestScore, i, score) ==
  IF Greater(score, bestScore) THEN [best |-> i, bestScore |-> score]
                               ELSE [best |-> best, bestScore |-> bestScore]

\* llm.js:533-546  the scoring loop from source i on; b holds `best` (the
\* index of the source, 0 while null) and `bestScore`
RECURSIVE BestLoop(_, _, _, _, _)
BestLoop(item, sources, usedUrls, i, b) ==
  IF i > Len(sources) THEN b.best
  ELSE IF Falsy(sources[i].url) \/ sources[i].url \in usedUrls
    THEN BestLoop(item, sources, usedUrls, i + 1, b)
    ELSE BestLoop(item, sources, usedUrls, i + 1,
                  Call1(LAMBDA score : BestAfter(b.best, b.bestScore, i, score),
                        ItemScore(item, sources[i])))

FirstIndex(S) == IF S = {} THEN 0 ELSE Min(S)

\* llm.js:524-527  the source whose url is the item's source_url
DirectMatch(item, sources, usedUrls) ==
  IF Falsy(Get(item, "source_url")) THEN 0
  ELSE FirstIndex({k \in 1..Len(sources) : sources[k].url = item.source_url})

\* llm.js:550-551  the first unused source, else the first source
FallbackPickFirstSource(sources, usedUrls) == 1
FallbackPick(sources, usedUrls) ==
  LET fallback == FirstIndex({k \in 1..Len(sources) :
                                ~Falsy(sources[k].url) /\ sources[k].url \notin usedUrls})
  IN IF fallback # 0 THEN fallback ELSE 1

\* llm.js:521-552  the index of the source returned (0 for null)
pickBestSourceForItem(item, sources, usedUrls) ==
  IF sources = <<>> THEN 0
  ELSE LET direct == DirectMatch(item, sources, usedUrls)
           best == BestLoop(item, sources, usedUrls, 1, [best |-> 0, bestScore |-> Score(0, 1)])
       IN IF direct # 0 THEN direct
          ELSE IF best # 0 THEN best
          ELSE FallbackPick(sources, usedUrls)

NoSource == [none |-> TRUE]
News == <<"n", "e", "w", "s">>
SourceWord == <<"S", "o", "u", "r", "c", "e">>

\* llm.js:1061-1068 and 1079-1086  an item made from a source
ItemFromSource(source) ==
  [title |-> Or(source.title, Or(source.url, SourceWord)),
   summary |-> Or(Get(source, "description"), <<>>),
   source_title |-> Or(source.title, <<>>),
   source_url |-> Or(source.url, <<>>),
   image |-> Or(Get(source, "image"), Null),
   image_fallback |-> Or(Get(source, "image_fallback"),
                         fallbackImageUrl(Or(source.title, Or(source.url, News))))]

\* llm.js:1077-1087
buildItemsFromSources(sources, max) ==
  LET kept == Slice(sources, max) IN [i \in 1..Len(kept) |-> ItemFromSource(kept[i])]

\* llm.js:1042-1057  the item as updated for the source picked for it
AttachOne(item, source) ==
  LET srcUrl == Get(source, "url")
      srcTitle == Get(source, "title")
      itemUrl == Get(item, "source_url")
      itemTitle == Get(item, "title")
      fallback == Or(Get(source, "image_fallback"),
                     fallbackImageUrl(Or(itemTitle, Or(Get(item, "source_title"),
                                                        Or(itemUrl, News)))))
      urlChanged == ~Falsy(srcUrl) /\ ~Falsy(itemUrl) /\ itemUrl # srcUrl
      hasSource == ~Falsy(srcUrl)
      preferSource == urlChanged \/ Falsy(itemUrl) \/ Falsy(itemTitle)
      title == IF preferSource
                 THEN Or(srcTitle, Or(itemTitle, Or(Get(item, "source_title"), <<>>)))
                 ELSE itemTitle
      summary == IF preferSource \/ Falsy(Get(item, "summary"))
                   THEN Or(Get(source, "description"), Or(Get(item, "summary"), <<>>))
                   ELSE item.summary
  IN Spread(item,
       [source_url |-> IF hasSource THEN srcUrl ELSE itemUrl,
        source_title |-> Or(Get(item, "source_title"), Or(srcTitle, Or(itemTitle, <<>>))),
        title |-> title,
        summary |-> summary,
        image |-> Or(Get(source, "image"), Or(Get(item, "image"), Null)),
        image_fallback |-> fallback])

\* llm.js:1037-1057  one round of the map: the pick is logged, the url of
\* the source picked (k, 0 for null) is added to usedUrls, the item is updated
AttachStep(st, item, sources, k) ==
  LET source == IF k = 0 THEN NoSource ELSE sources[k] IN
  [usedUrls |-> IF ~Falsy(Get(source, "url")) THEN st.usedUrls \cup {source.url}
                                              ELSE st.usedUrls,
   items |-> Append(st.items, AttachOne(item, source)),
   log |-> Append(st.log, [item |-> item, usedUrls |-> st.usedUrls, picked |-> k])]

\* llm.js:1035-1058  the map over the items from item i on, with the set
\* usedUrls; the result carries the updated items and a log of the picks
RECURSIVE AttachLoop(_, _, _, _)
AttachLoop(items, sources, i, st) ==
  IF i > Len(items) THEN st
  ELSE AttachLoop(items, sources, i + 1,
         Call1(LAMBDA k : AttachStep(st, items[i], sources, k),
               pickBestSourceForItem(items[i], sources, st.usedUrls)))

\* llm.js:1077  and llm.js:1061  the number of items made from sources
SourceItemsMax == 6

NotAnArray == <<[notAnArray |-> TRUE]>>

\* llm.js:1032-1075  (the plan is its list of items)
attachImagesToPlan(items, sources) ==
  IF items = NotAnArray THEN [items |-> items, log |-> <<>>]
  ELSE LET r == AttachLoop(items, sources, 1, [usedUrls |-> {}, items |-> <<>>, log |-> <<>>]) IN
       IF r.items = <<>> /\ sources # <<>>
         THEN [items |-> buildItemsFromSources(sources, SourceItemsMax), log |-> r.log]
         ELSE r

(***************************************************************************)
(* The planner from the provider's answer on: extraction of the sources,   *)
(* enrichSources, the base plan and attachImagesToPlan.                    *)
(***************************************************************************)
UX == <<"a", ":", "/", "K">>

\* Items as the model may return them in plan.items
PlanItems ==
  { [title |-> <<"a">>, summary |-> <<>>, source_url |-> <<>>],
    [title |-> <<"a", " ", "b">>, summary |-> <<"b">>, source_url |-> <<>>],
    [title |-> <<"a">>, summary |-> <<"b">>, source_url |-> U1],
    [title |-> <<"a", " ", "b">>, summary |-> <<>>, source_url |-> UX],
    [title |-> <<>>, summary |-> <<>>, source_title |-> <<"a">>, source_url |-> U1] }

\* llm.js:610  the default of the option max
EnrichDefaultMax == 6

\* llm.js:588, 607  the provider answered: its sources are collected and
\* deduplicated
ExtractSources ==
  /\ plPc = "idle"
  /\ \E raw \in SeqsUpTo(RawSources, MaxSources) : rawSources' = raw
  /\ plPc' = "extracted"
  /\ UNCHANGED <<basePlan, plItems, forceSourceItems, plUserText, enrichedSources, planWithImages,
                 pickLog>>
  /\ UNCHANGED enrichVars
  /\ PlanOnly

\* llm.js:610-617  enrichSources is called with the extracted sources and
\* starts one metadata fetch per unique source
EnrichCall ==
  /\ plPc = "extracted"
  /\ esPc = "idle"
  /\ esSources' = dedupeSources(rawSources)
  /\ esMax' = EnrichDefaultMax
  /\ esOutOfOrder' = FALSE
  /\ uniqueSources' = Slice(dedupeSources(esSources'), esMax')
  /\ metadataList' = [i \in 1..Len(uniqueSources') |-> Pending]
  /\ enriched' = <<>>
  /\ esPc' = "fetching"
  /\ plPc' = "enriching"
  /\ UNCHANGED <<rawSources, basePlan, plItems, forceSourceItems, plUserText, enrichedSources,
                 planWithImages, pickLog>>
  /\ PlanOnly

\* llm.js:613  Promise.all over uniqueSources.map: the result of the fetch
\* for source i is element i of metadataList, however many fetches completed
\* before it
ResultSlotByArrival(i, completed) == completed + 1
ResultSlot(i, completed) == i

\* llm.js:613-617  one of the concurrent metadata fetches completes
MetadataArrives ==
  /\ esPc = "fetching"
  /\ \E i \in 1..Len(metadataList) :
       /\ metadataList[i] = Pending
       /\ \E md \in {MetadataFailed(uniqueSources[i].url), MetadataFound(uniqueSources[i].url)} :
            LET completed == Cardinality({k \in 1..Len(metadataList) : metadataList[k] # Pending})
            IN metadataList' = [metadataList EXCEPT ![ResultSlot(i, completed)] = md]
       /\ esOutOfOrder' = (esOutOfOrder \/ \E j \in (i + 1)..Len(metadataList) :
                                             metadataList[j] # Pending)
  /\ UNCHANGED <<esPc, esSources, esMax, uniqueSources, enriched>>
  /\ UNCHANGED planVars
  /\ PlanOnly

\* llm.js:621-638  after Promise.all: one round of the merge loop
EnrichMerge ==
  /\ esPc = "fetching"
  /\ \A i \in 1..Len(metadataList) : metadataList[i] # Pending
  /\ Len(enriched) < Len(uniqueSources)
  /\ LET k == Len(enriched) + 1 IN
     \E cacheOk \in BOOLEAN :
       enriched' = Append(enriched, EnrichOne(uniqueSources[k], metadataList[k], cacheOk))
  /\ UNCHANGED <<esPc, esSources, esMax, esOutOfOrder, uniqueSources, metadataList>>
  /\ UNCHANGED planVars
  /\ PlanOnly

\* llm.js:640  enrichSources returns; llm.js:898, 1132
EnrichReturn ==
  /\ esPc = "fetching"
  /\ \A i \in 1..Len(metadataList) : metadataList[i] # Pending
  /\ Len(enriched) = Len(uniqueSources)
  /\ enrichedSources' = enriched
  /\ esPc' = "idle"
  /\ esSources' = <<>>
  /\ uniqueSources' = <<>>
  /\ metadataList' = <<>>
  /\ enriched' = <<>>
  /\ plPc' = "sourced"
  /\ rawSources' = <<>>
  /\ UNCHANGED <<esMax, esOutOfOrder, basePlan, plItems, forceSourceItems, plUserText,
                 planWithImages, pickLog>>
  /\ PlanOnly

\* The phrases of the model: each stands for a piece of text that one of the
\* patterns of llm.js:390, 395, 400, 413 matches, or that none matches
Phrases == {"News", "headline", "generate  image", "Create image", "chart",
            "timeline", "search", "hello", "story"}

\* The flag i of the regular expressions
LowerPhrase(w) ==
  CASE w = "News" -> "news"
    [] w = "Create image" -> "create image"
    [] OTHER -> w

\* llm.js:413  the pattern of wantsWebSearchFromText, llm.js:849 the pattern
\* for creative writing, each on one phrase
MatchesSearch(w) == LowerPhrase(w) \in {"news", "search"}
MatchesCreative(w) == LowerPhrase(w) \in {"story"}

\* llm.js:411-414
wantsWebSearchFromText(text) == text # <<>> /\ \E i \in 1..Len(text) : MatchesSearch(text[i])

\* The last user texts of the planner's calls (llm.js:899, 1133): a text is
\* a sequence of phrases, '' is the empty sequence
PlannerTexts == {<<"News", "Create image">>, <<"chart", "search">>, <<"chart">>}

\* llm.js:901-903, 1135-1137
BasePlanAsIs(items, force, sources) == items
BasePlanOf(items, force, sources) ==
  IF force \/ items = NotAnArray \/ items = <<>>
    THEN buildItemsFromSources(sources, SourceItemsMax)
    ELSE items

\* llm.js:899-909, 1133-1143  the base plan is chosen and the images are
\* attached; the planner returns
AttachImages ==
  /\ plPc = "sourced"
  /\ \E items \in SeqsUpTo(PlanItems, MaxItems) \cup {NotAnArray}, text \in PlannerTexts :
       /\ plItems' = items
       /\ plUserText' = text
       /\ forceSourceItems' = wantsWebSearchFromText(text)
       /\ basePlan' = BasePlanOf(items, forceSourceItems', enrichedSources)
  /\ LET r == attachImagesToPlan(basePlan', enrichedSources) IN
       /\ planWithImages' = r.items
       /\ pickLog' = r.log
  /\ plPc' = "planned"
  /\ UNCHANGED <<rawSources, enrichedSources>>
  /\ UNCHANGED enrichVars
  /\ PlanOnly

PlanNext ==
  ExtractSources \/ EnrichCall \/ MetadataArrives \/ EnrichMerge \/ EnrichReturn \/ AttachImages

SpecPlan == InitAll /\ [][PlanNext]_vars

FirstIndexOfUrl(list, url) == Min({k \in 1..Len(list) : list[k].url = url})

\* C7: the list dedupeSources returns has no two entries with the same url,
\* every entry's url is a url of the input, and the entries are in the order
\* in which their urls first occur in the input.
C7_DedupeUniqueInOrder ==
  esPc = "fetching" =>
    /\ \A i, j \in 1..Len(esSources) : esSources[i].url = esSources[j].url => i = j
    /\ \A i \in 1..Len(esSources) : \E k \in 1..Len(rawSources) : rawSources[k].url = esSources[i].url
    /\ \A i, j \in 1..Len(esSources) :
         i < j => FirstIndexOfUrl(rawSources, esSources[i].url)
                    < FirstIndexOfUrl(rawSources, esSources[j].url)

\* C7 witness: the input names the same url twice, with different titles,
\* and the output has one entry for it.
C7_Witness ==
  /\ esPc = "fetching"
  /\ Len(rawSources) = 2
  /\ rawSources[1].url = U1
  /\ rawSources[2].url = U1
  /\ rawSources[1].title # rawSources[2].title
  /\ Len(esSources) = 1

IsPlaceholderUrl(v) ==
  /\ Len(v) >= 3
  /\ v[1] = "https://picsum.photos/seed/"
  /\ v[Len(v)] = "/800/500"

WellFormedFallback(r) ==
  /\ "image_fallback" \in DOMAIN r
  /\ r.image_fallback # Null
  /\ r.image_fallback # <<>>

\* C9: every source enrichSources returns has a non-null, non-empty
\* image_fallback: its cached image url when the image was cached, else a
\* seeded placeholder url; and every item of the base plan built from the
\* sources and of the plan attachImagesToPlan returns has a non-null,
\* non-empty image_fallback.
C9_ImageFallbackAlways ==
  /\ \A i \in 1..Len(enriched) :
       /\ WellFormedFallback(enriched[i])
       /\ IF "image_cached" \in DOMAIN enriched[i]
            THEN enriched[i].image_fallback = enriched[i].image_cached
            ELSE IsPlaceholderUrl(enriched[i].image_fallback)
  /\ \A i \in 1..Len(enrichedSources) : WellFormedFallback(enrichedSources[i])
  /\ (plPc = "planned" /\ basePlan # NotAnArray) =>
       /\ \A i \in 1..Len(basePlan) :
            (forceSourceItems \/ plItems \in {<<>>, NotAnArray}) => WellFormedFallback(basePlan[i])
       /\ \A i \in 1..Len(planWithImages) : WellFormedFallback(planWithImages[i])

\* C9 witness: of two enriched sources one has a cached image and the other
\* had a failed metadata fetch and no image; the plan has items.
C9_Witness ==
  /\ plPc = "planned"
  /\ Len(enrichedSources) = 2
  /\ "image_cached" \in DOMAIN enrichedSources[1]
  /\ enrichedSources[2].image = Null
  /\ IsPlaceholderUrl(enrichedSources[2].image_fallback)
  /\ Len(planWithImages) = 2

UnusedSourceExists(usedUrls) ==
  \E k \in 1..Len(enrichedSources) : enrichedSources[k].url \notin usedUrls

HasDirectMatch(item) ==
  /\ "source_url" \in DOMAIN item
  /\ item.source_url # <<>>
  /\ \E k \in 1..Len(enrichedSources) : enrichedSources[k].url = item.source_url

\* C10 as stated: whenever some source has a url that is not in usedUrls,
\* the source pickBestSourceForItem returns has a url that is not in
\* usedUrls, also for an item that carries a source_url equal to a used url.
C10_NeverPicksUsed ==
  \A n \in 1..Len(pickLog) :
    UnusedSourceExists(pickLog[n].usedUrls) =>
      /\ pickLog[n].picked # 0
      /\ enrichedSources[pickLog[n].picked].url \notin pickLog[n].usedUrls

\* C10 amended: an item whose source_url is the url of a source gets that
\* source, used or not; for every other item, whenever some source has a url
\* that is not in usedUrls, the source returned has a url not in usedUrls.
C10_NeverPicksUsedUnlessDirect ==
  \A n \in 1..Len(pickLog) :
    LET e == pickLog[n] IN
    IF HasDirectMatch(e.item)
      THEN e.picked # 0 /\ enrichedSources[e.picked].url = e.item.source_url
      ELSE UnusedSourceExists(e.usedUrls) =>
             /\ e.picked # 0
             /\ enrichedSources[e.picked].url \notin e.usedUrls

\* C10 witness: with one url already used, an item without a direct match
\* is given the source that is still unused.
C10_Witness ==
  /\ plPc = "planned"
  /\ Len(enrichedSources) = 2
  /\ \E n \in 1..Len(pickLog) :
       /\ pickLog[n].usedUrls # {}
       /\ ~HasDirectMatch(pickLog[n].item)
       /\ enrichedSources[pickLog[n].picked].url \notin pickLog[n].usedUrls

(***************************************************************************)
(* The image policy: isNewsRequest, hasExplicitImageRequest,               *)
(* wantsVisualAid, getImagePolicy.  A text is a sequence of phrases; a     *)
(* regular expression matches the text when it matches one of them.        *)
(***************************************************************************)
\* llm.js:390  /뉴스|news|헤드라인|headline|기사|breaking/i on one phrase
MatchesNews(w) == LowerPhrase(w) \in {"news", "headline"}

\* llm.js:395  /...|generate\s*image|create\s*image|insert\s*image/i
MatchesExplicitImage(w) == LowerPhrase(w) \in {"generate  image", "create image"}

\* llm.js:400  /시각화|visualize|...|timeline|그래프|chart/i
MatchesVisualAid(w) == LowerPhrase(w) \in {"chart", "timeline"}

\* llm.js:388-391
isNewsRequest(text) == text # <<>> /\ \E i \in 1..Len(text) : MatchesNews(text[i])

\* llm.js:393-396
hasExplicitImageRequest(text) ==
  text # <<>> /\ \E i \in 1..Len(text) : MatchesExplicitImage(text[i])

\* llm.js:398-401
wantsVisualAid(text) == text # <<>> /\ \E i \in 1..Len(text) : MatchesVisualAid(text[i])

Policy(mode, max) == [mode |-> mode, max |-> max]

\* llm.js:406  the cap of an explicit image request, llm.js:407 of a visual aid
ExplicitMax == 3
AssistMax == 2

\* llm.js:403-409
getImagePolicyExplicitFirst(text) ==
  IF text = <<>> THEN Policy("none", 0)
  ELSE IF hasExplicitImageRequest(text) THEN Policy("explicit", ExplicitMax)
  ELSE IF isNewsRequest(text) THEN Policy("none", 0)
  ELSE IF wantsVisualAid(text) THEN Policy("assist", AssistMax)
  ELSE Policy("none", 0)
getImagePolicy(text) ==
  IF text = <<>> THEN Policy("none", 0)
  ELSE IF isNewsRequest(text) THEN Policy("none", 0)
  ELSE IF hasExplicitImageRequest(text) THEN Policy("explicit", ExplicitMax)
  ELSE IF wantsVisualAid(text) THEN Policy("assist", AssistMax)
  ELSE Policy("none", 0)

(***************************************************************************)
(* callLLM: the provider flow and the main generation call with its tool   *)
(* loop (callOpenAIWithTools, callGeminiWithTools).                        *)
(***************************************************************************)
\* llm.js:47-56  the keys of PROVIDERS
PROVIDERS == {"openai", "gemini"}

\* new Error(message)
ErrorOf(message) == [name |-> "Error", message |-> message]

\* llm.js:705, 970  the error of a provider invocation without API key
MissingKeyError(p) ==
  ErrorOf(IF p = "openai" THEN "OPENAI_API_KEY not configured"
                          ELSE "GEMINI_API_KEY not configured")

\* What a provider invocation throws once the key is there: a non-2xx
\* answer (llm.js:731, 1000), or what fetchWithRetry throws (llm.js:38, 43)
TransportErrors ==
  { ErrorOf("API error (500)"),
    ErrorOf("Request timed out after 180000ms"),
    [name |-> "FetchError", message |-> "request failed"] }

\* What a provider invocation throws
ProviderErrors == {MissingKeyError(p) : p \in PROVIDERS} \cup TransportErrors

\* llm.js:858, 876 and 1091, 1106, 1112  the tools of the planner's first
\* invocation and of the invocations its catch blocks make
PlannerToolSetsSame(p) ==
  IF p = "openai" THEN << {"web_search"}, {"web_search"} >>
  ELSE << {"google_search", "url_context"}, {"google_search", "url_context"},
          {"google_search", "url_context"} >>
PlannerToolSets(p) ==
  IF p = "openai" THEN << {"web_search"}, {} >>
  ELSE << {"google_search", "url_context"}, {"google_search"}, {} >>

\* llm.js:703-735, 968-1004  one provider invocation: without the key it
\* throws before any request; with it, fetchWithRetry is called and the
\* invocation answers or throws
Answered == [answered |-> TRUE]
InvocationOutcomes(p, key) ==
  IF key THEN {Answered} \cup TransportErrors ELSE {MissingKeyError(p)}

\* llm.js:938, 1169  the number of rounds the tool loop allows
ToolRoundsMax == 4

\* llm.js:938, 1169  the loop condition attempt < 4
ToolLoopContinuesInclusive(attempt) == attempt <= ToolRoundsMax
ToolLoopContinues(attempt) == attempt < ToolRoundsMax

\* llm.js:940, 1171  the test that lets a round start: the response has
\* function calls
HasToolCallsAlways(calls) == TRUE
HasToolCalls(calls) == calls # <<>>

\* The function calls of one response, by tool name (llm.js:756-759,
\* 1021-1030); "lookup" is a tool the program does not know
ToolCallLists == {<<>>, <<"generate_image">>, <<"fetch_url_metadata", "lookup">>}

\* The text of one response (llm.js:737-754, 1006-1019): a sandbox object
\* with code, or plain words
ResponseTexts == {<<"LB", "TS", "KC", "LB", "APP", "CSS", "RB", "RB">>, <<"TXT">>}

\* The sources the planner's answer and the responses of the main
\* generation call cite
CitedSources ==
  { [title |-> <<"a">>, url |-> U1, image |-> Null],
    [title |-> <<"K", "!">>, url |-> U1, image |-> Null],
    [title |-> <<>>, url |-> U2, image |-> Null] }

\* The sources a response of the main generation call cites: one under a
\* url the planner may cite with another title, one under a url of its own
ResponseSources == {c \in CitedSources : c.title # <<"a">>}

\* llm.js:555-589  (the sources pushed at 563-567 and 576-580 are given)
extractOpenAISources(cited) == dedupeSources(cited)

\* llm.js:610-641  enrichSources when every metadata fetch ends the same way
enrichSourcesResult(sources, found, cacheOk) ==
  LET unique == Slice(dedupeSources(sources), EnrichDefaultMax) IN
  [i \in 1..Len(unique) |->
     EnrichOne(unique[i],
               IF found THEN MetadataFound(unique[i].url) ELSE MetadataFailed(unique[i].url),
               cacheOk)]

\* llm.js:769-821  the tool result of one call of the OpenAI loop; generated
\* tells whether the image generator returned an image
OpenAIToolOutput(call, allow, generated) ==
  IF call = "generate_image"
    THEN IF ~allow
           THEN [call |-> call, error |-> "Image generation disabled for this request."]
           ELSE IF generated THEN [call |-> call, url |-> "/generated/image.png"]
           ELSE [call |-> call, error |-> "image generation failed"]
  ELSE IF call = "fetch_url_metadata" THEN [call |-> call, results |-> "metadata"]
  ELSE [call |-> call, error |-> "Unknown tool"]

\* llm.js:1175-1217  the function response of one call of the Gemini loop
GeminiFunctionResponse(call, allow, generated) ==
  IF call = "generate_image"
    THEN IF ~allow
           THEN [call |-> call, error |-> "Image generation disabled for this request."]
           ELSE IF generated THEN [call |-> call, url |-> "/generated/image.png"]
           ELSE [call |-> call, error |-> "image generation failed"]
  ELSE [call |-> call, error |-> "Unknown tool"]

\* llm.js:761-832 and 1173-1218  one result per call, in the order of the calls
ExecuteToolCalls(p, calls, allow, generated) ==
  [i \in 1..Len(calls) |->
     IF p = "openai" THEN OpenAIToolOutput(calls[i], allow, generated)
                     ELSE GeminiFunctionResponse(calls[i], allow, generated)]

\* llm.js:958  the sources of the result of callOpenAIWithTools
FinalSourcesConcatenated(sources, contextSources) == sources \o contextSources
FinalSources(sources, contextSources) == dedupeSources(sources \o contextSources)

\* A result {content, parsed, sources, usage} (llm.js:960-965, 1232-1237)
LLMResult(text, parsed, sources, usage) ==
  [content |-> text, parsed |-> parsed, sources |-> sources, usage |-> usage]

\* The last user texts of the model
UserTexts ==
  {<<"News", "Create image">>, <<"Create image">>, <<"chart">>, <<"hello">>, <<"story">>}

\* llm.js:1243, 1295, 936, 1167  imagePolicy.mode !== 'none'
AllowsImagesAlways(policy) == TRUE
AllowsImages(policy) == policy.mode # "none"

\* llm.js:1249-1272, 1278-1288, 1301-1323, 1328-1338  where the flow invokes
\* the image generator before the main generation call: ensurePlanImages for
\* a plan whose items need an image (or with force, llm.js:469),
\* generateImageForPrompt on the user text when there is no plan item
FlowImageCalls(policy, web, planItems) ==
  IF ~AllowsImages(policy) THEN {}
  ELSE IF web /\ planItems # "empty"
    THEN (IF policy.max > 0 /\ (policy.mode = "explicit" \/ planItems = "needImage")
            THEN {"plan"} ELSE {})
  ELSE {"text"}

\* llm.js:770-785, 1176-1194  whether a round of tool calls invokes the
\* image generator
ToolImageCalls(calls, allow) ==
  IF allow /\ \E i \in 1..Len(calls) : calls[i] = "generate_image" THEN {"tool"} ELSE {}

\* llm.js:1347 and chat.js:33  an argument that is undefined becomes true;
\* "other" stands for null and for any value that is not a boolean
DefaultTrue(arg) == IF arg = "undefined" THEN "true" ELSE arg

\* llm.js:843-854
shouldEnableWebSearchAlways(text, enableWebSearch) == TRUE
shouldEnableWebSearch(text, enableWebSearch) ==
  IF enableWebSearch = "false" THEN FALSE
  ELSE IF enableWebSearch = "true" THEN TRUE
  ELSE IF wantsWebSearchFromText(text) THEN TRUE
  ELSE IF text # <<>> /\ \E i \in 1..Len(text) : MatchesCreative(text[i]) THEN FALSE
  ELSE TRUE

\* What the callers of callLLM pass as enableWebSearch: the routes pass the
\* member of the request body (chat.js:33, 50), generateWithRepair passes
\* false (llm.js:1391)
EnableWebSearchArgs(caller) ==
  IF caller = "repair" THEN {"false"} ELSE {"undefined", "true", "false", "other"}

\* llm.js:1343-1371  callLLM is called
CallLLM ==
  /\ tlPc = "idle"
  /\ \E p \in PROVIDERS \cup {"other"}, caller \in {"route", "repair"}, text \in UserTexts,
        key \in BOOLEAN :
     \E arg \in EnableWebSearchArgs(caller) :
       /\ provider' = p
       /\ tlCaller' = caller
       /\ apiKeyConfigured' = key
       /\ webSearchEnabled' = IF p \in PROVIDERS
                                 THEN shouldEnableWebSearch(text, DefaultTrue(arg))
                                 ELSE webSearchEnabled  \* llm.js:1349-1354: not computed
       /\ lastUserText' = text
       /\ imagePolicy' = getImagePolicy(text)
       /\ allowImageGeneration' = AllowsImages(imagePolicy')
       /\ IF p \in PROVIDERS
            THEN tlPc' = "flow" /\ tlOutcome' = NoOutcome
            ELSE tlPc' = "thrown" /\ tlOutcome' = Throws(ErrorOf("Unknown provider"))
  /\ plannerCalls' = <<>>
  /\ plannerFailures' = 0
  /\ keyErrors' = 0
  /\ httpInvocations' = 0
  /\ UNCHANGED <<imageCalls, ctxSources, tlAttempt, tlData, tlSources, tlInput,
                 tlToolOutputs, tlInvocations, tlAllCalls>>
  /\ ToolsOnly

\* llm.js:862-884, 1094-1118  with web search the flow calls the planner,
\* which invokes the provider; when the invocation throws, the catch block
\* around it invokes the provider again with the next smaller tool set,
\* whatever the error was; the last invocation has no catch block
PlannerInvokes ==
  /\ tlPc = "flow"
  /\ webSearchEnabled
  /\ Len(plannerCalls) < Len(PlannerToolSets(provider))
  /\ plannerCalls' = Append(plannerCalls, PlannerToolSets(provider)[Len(plannerCalls) + 1])
  /\ keyErrors' = IF apiKeyConfigured THEN keyErrors ELSE keyErrors + 1
  /\ httpInvocations' = IF apiKeyConfigured THEN httpInvocations + 1 ELSE httpInvocations
  /\ \E o \in InvocationOutcomes(provider, apiKeyConfigured) :
       IF o = Answered
         THEN tlPc' = "planned" /\ tlOutcome' = tlOutcome /\ plannerFailures' = plannerFailures
       ELSE /\ plannerFailures' = plannerFailures + 1
            /\ IF Len(plannerCalls') < Len(PlannerToolSets(provider))
                 THEN tlPc' = "flow" /\ tlOutcome' = tlOutcome
                 ELSE tlPc' = "thrown" /\ tlOutcome' = Throws(o)
  /\ UNCHANGED <<tlCaller, provider, apiKeyConfigured, webSearchEnabled, lastUserText,
                 imagePolicy,
                 allowImageGeneration, imageCalls, ctxSources, tlAttempt, tlData,
                 tlSources, tlInput, tlToolOutputs, tlInvocations, tlAllCalls>>
  /\ ToolsOnly

\* The source lists the planner's answer may cite: none, or one source
PlannerSourceLists == {<<>>} \cup {<<c>> : c \in CitedSources}

\* llm.js:1246-1261, 1276-1277, 1299-1312, 1327  the context is built: with
\* web search from the planner's result, whose sources are the enriched
\* sources (llm.js:906-909, 1140-1143), else with no sources
FlowContext ==
  /\ IF webSearchEnabled THEN tlPc = "planned" ELSE tlPc = "flow"
  /\ IF webSearchEnabled
       THEN \E raw \in PlannerSourceLists, found \in BOOLEAN :
              ctxSources' = enrichSourcesResult(dedupeSources(raw), found, found)
       ELSE ctxSources' = <<>>
  /\ \E planItems \in {"empty", "needImage", "haveImage"} :
       imageCalls' = FlowImageCalls(imagePolicy, webSearchEnabled, planItems)
  /\ tlInput' = <<[kind |-> "messages", of |-> 0]>>
  /\ tlPc' = "invoke"
  /\ UNCHANGED <<tlCaller, plannerFailures, provider, apiKeyConfigured, plannerCalls, keyErrors, httpInvocations,
                 webSearchEnabled, lastUserText, imagePolicy,
                 allowImageGeneration, tlAttempt, tlData,
                 tlSources, tlToolOutputs, tlInvocations, tlAllCalls, tlOutcome>>
  /\ ToolsOnly

\* A provider invocation of the main generation call throws (llm.js:925,
\* 945, 1160, 1222): nothing catches it and callLLM rejects
PipelineThrows ==
  /\ tlPc = "invoke"
  /\ \E e \in InvocationOutcomes(provider, apiKeyConfigured) \ {Answered} :
       tlOutcome' = Throws(e)
  /\ keyErrors' = IF apiKeyConfigured THEN keyErrors ELSE keyErrors + 1
  /\ httpInvocations' = IF apiKeyConfigured THEN httpInvocations + 1 ELSE httpInvocations
  /\ tlPc' = "thrown"
  /\ UNCHANGED <<tlCaller, plannerFailures, provider, apiKeyConfigured, plannerCalls, webSearchEnabled, lastUserText,
                 imagePolicy, allowImageGeneration, imageCalls, ctxSources, tlAttempt,
                 tlData, tlSources, tlInput, tlToolOutputs, tlInvocations, tlAllCalls>>
  /\ ToolsOnly

\* llm.js:925-934 and 945-954, 1160-1165 and 1222-1227  the provider answers
\* an invocation: the first one before the loop, the later ones at the end of
\* a round, where attempt++ follows
ProviderResponds ==
  /\ tlPc = "invoke"
  /\ Answered \in InvocationOutcomes(provider, apiKeyConfigured)
  /\ httpInvocations' = httpInvocations + 1
  /\ \E calls \in ToolCallLists, text \in ResponseTexts,
        cited \in (IF provider = "openai" THEN SeqsUpTo(ResponseSources, MaxCited) ELSE {<<>>}) :
       /\ tlData' = [seq |-> tlInvocations + 1, calls |-> calls, text |-> text,
                     sources |-> cited]
       /\ tlAllCalls' = (tlAllCalls /\ calls # <<>>)
       /\ tlSources' = IF provider # "openai" THEN tlSources
                       ELSE IF tlInvocations = 0 THEN extractOpenAISources(cited)
                       ELSE dedupeSources(tlSources \o extractOpenAISources(cited))
  /\ tlAttempt' = IF tlInvocations = 0 THEN 0 ELSE tlAttempt + 1
  /\ tlInvocations' = tlInvocations + 1
  /\ tlPc' = "loop"
  /\ UNCHANGED <<tlCaller, plannerFailures, provider, apiKeyConfigured, plannerCalls, keyErrors,
                 webSearchEnabled, lastUserText, imagePolicy,
                 allowImageGeneration, imageCalls, ctxSources, tlInput,
                 tlToolOutputs, tlOutcome>>
  /\ ToolsOnly

\* llm.js:938-943, 1169-1220  a round starts: the loop goes on, the response
\* has tool calls, they are executed and the input is extended with the
\* response and the tool results
ExecuteTools ==
  /\ tlPc = "loop"
  /\ ToolLoopContinues(tlAttempt)
  /\ HasToolCalls(tlData.calls)
  /\ \E generated \in BOOLEAN :
       tlToolOutputs' = ExecuteToolCalls(provider, tlData.calls, allowImageGeneration, generated)
  /\ tlInput' = tlInput \o <<[kind |-> "output", of |-> tlData.seq],
                             [kind |-> "tool_outputs", of |-> tlData.seq]>>
  /\ imageCalls' = imageCalls \cup ToolImageCalls(tlData.calls, allowImageGeneration)
  /\ tlPc' = "invoke"
  /\ UNCHANGED <<tlCaller, plannerFailures, provider, apiKeyConfigured, plannerCalls, keyErrors, httpInvocations,
                 webSearchEnabled, lastUserText, imagePolicy,
                 allowImageGeneration, ctxSources, tlAttempt,
                 tlData, tlSources, tlInvocations, tlAllCalls, tlOutcome>>
  /\ ToolsOnly

\* llm.js:938-940 and 957-965, 1169-1171 and 1230-1237  the loop ends, by its
\* cap or by a response without tool calls, and the result is built from `data`
ToolsReturn ==
  /\ tlPc = "loop"
  /\ ~(ToolLoopContinues(tlAttempt) /\ HasToolCalls(tlData.calls))
  /\ LET parsed == parseResponse(StringContent(tlData.text))
         finalSources == IF provider = "openai" THEN FinalSources(tlSources, ctxSources)
                                                ELSE ctxSources
     IN IF parsed.kind = "throw"
          THEN tlOutcome' = parsed /\ tlPc' = "thrown"
          ELSE /\ tlOutcome' = Returns(LLMResult(tlData.text, parsed.value, finalSources,
                                                 tlData.seq))
               /\ tlPc' = "returned"
  /\ UNCHANGED <<tlCaller, plannerFailures, provider, apiKeyConfigured, plannerCalls, keyErrors, httpInvocations,
                 webSearchEnabled, lastUserText, imagePolicy,
                 allowImageGeneration, imageCalls, ctxSources, tlAttempt,
                 tlData, tlSources, tlInput, tlToolOutputs, tlInvocations, tlAllCalls>>
  /\ ToolsOnly

ToolsNext ==
  CallLLM \/ PlannerInvokes \/ FlowContext \/ PipelineThrows \/ ProviderResponds \/ ExecuteTools \/ ToolsReturn

SpecTools == InitAll /\ [][ToolsNext]_vars

\* The responses whose tool calls were executed
ExecutedResponses == {tlInput[i].of : i \in {j \in 1..Len(tlInput) : tlInput[j].kind = "tool_outputs"}}

\* C1: the main generation call never makes more than 5 provider invocations
\* nor more than 4 rounds; when it returns and every response carried a tool
\* call, it has made exactly 5 invocations and 4 rounds, the tool calls
\* executed are those of responses 1 to 4 and not those of the fifth, and
\* content, parsed and usage are those of the fifth response.
C1_ToolLoopCap ==
  /\ tlInvocations <= ToolRoundsMax + 1
  /\ Cardinality(ExecutedResponses) <= ToolRoundsMax
  /\ (tlPc = "returned" /\ tlAllCalls) =>
       /\ tlInvocations = ToolRoundsMax + 1
       /\ ExecutedResponses = 1..ToolRoundsMax
       /\ tlData.seq = ToolRoundsMax + 1
       /\ tlOutcome.value.usage = tlData.seq
       /\ tlOutcome.value.content = tlData.text
       /\ tlOutcome.value.parsed = parseResponse(StringContent(tlData.text)).value

\* C1 witness: the OpenAI call returned after five responses that all
\* carried tool calls.
C1_Witness ==
  /\ tlPc = "returned"
  /\ provider = "openai"
  /\ tlAllCalls
  /\ tlInvocations = 5
  /\ tlData.calls # <<>>

UniqueByUrl(list) == \A i, j \in 1..Len(list) : list[i].url = list[j].url => i = j

\* C8: the sources of every result callLLM returns, and the sources the
\* OpenAI loop has accumulated after every response, are unique by url.
C8_SourcesUniqueByUrl ==
  /\ UniqueByUrl(tlSources)
  /\ tlPc = "returned" => UniqueByUrl(tlOutcome.value.sources)

\* C8 witness: in a later round of the OpenAI loop the response cited a url
\* that an earlier response had cited, that url is also a url of
\* context.sources, and the result lists it once.
C8_Witness ==
  /\ tlPc = "returned"
  /\ provider = "openai"
  /\ tlInvocations >= 2
  /\ Len(tlData.sources) >= 1
  /\ tlData.sources[1] = [title |-> <<"K", "!">>, url |-> U1, image |-> Null]
  /\ Len(tlSources) = 2
  /\ tlSources[1].url = U1
  /\ \E i \in 1..Len(ctxSources) : ctxSources[i].url = U1
  /\ Len(tlOutcome.value.sources) = 2

(***************************************************************************)
(* generateWithRepair and the chat routes POST / and POST /repair.  A call *)
(* of callLLM is one step here: it returns a result or throws.             *)
(***************************************************************************)
\* What callLLM hands back (llm.js:960-965, 1232-1237): a sandbox with code,
\* plain words, or a sandbox object without code
PipelineTexts == ResponseTexts \cup {<<"LB", "TS", "RB">>}

\* What one call of callLLM ends in: a result, or one of the errors thrown
\* along the pipeline (llm.js:1351, 705, 731, 38, 43)
CallLLMOutcomes ==
  {Returns(LLMResult(text, parseResponse(StringContent(text)).value, found, 1)) :
     text \in PipelineTexts,
     found \in {<<>>, enrichSourcesResult(<<[title |-> <<"a">>, url |-> U1, image |-> Null]>>,
                                          FALSE, FALSE)}}
    \cup {Throws(e) : e \in ProviderErrors \cup {ErrorOf("Unknown provider")}}

\* llm.js:1392-1393  result.parsed.find(p => p.type === 'sandbox')?.code
FirstSandboxAnyCode(parsed) == \E i \in 1..Len(parsed) : parsed[i].type = Str("sandbox")
FirstSandboxHasCode(parsed) ==
  LET found == {i \in 1..Len(parsed) : parsed[i].type = Str("sandbox")} IN
  /\ found # {}
  /\ "code" \in DOMAIN parsed[Min(found)]
  /\ parsed[Min(found)].code # Absent

\* chat.js:38  result.parsed.some(item => item.type === 'sandbox' && item.code)
SomeSandboxOfAnyCode(parsed) == \E i \in 1..Len(parsed) : parsed[i].type = Str("sandbox")
SomeSandboxWithCode(parsed) ==
  \E i \in 1..Len(parsed) :
    /\ parsed[i].type = Str("sandbox")
    /\ "code" \in DOMAIN parsed[i]
    /\ parsed[i].code # Absent

\* The messages of a conversation
UserAsk == [role |-> "user", content |-> <<"ask">>]
AssistantMessage(content) == [role |-> "assistant", content |-> content]
\* llm.js:1384-1387
ErrorFixMessage(error) == [role |-> "user", content |-> <<"fix">> \o error]
\* llm.js:1399-1402
CorrectiveMessage == [role |-> "user", content |-> <<"corrective">>]
\* chat.js:44
RetryMessage == [role |-> "user", content |-> <<"retry">>]

\* A user message that asks for an image in so many words, and one whose
\* text is empty after trim()
UserImageAsk == [role |-> "user", content |-> <<"Create image">>]
BlankUserMessage == [role |-> "user", content |-> <<>>]

\* The message lists a caller passes
CallerMessageLists ==
  {<<>>, <<UserAsk>>, <<UserAsk, AssistantMessage(<<"TXT">>), UserAsk>>,
   <<UserImageAsk>>, <<UserImageAsk, AssistantMessage(<<"TXT">>), BlankUserMessage>>}

\* llm.js:377-386  getLastUserText: the loop from the last message down;
\* the text of a message is its sequence of phrases
RECURSIVE LastUserTextFrom(_, _)
LastUserTextFrom(messages, i) ==
  IF i = 0 THEN <<>>
  ELSE IF messages[i].role = "user" /\ messages[i].content # <<>>
    THEN messages[i].content
  ELSE LastUserTextFrom(messages, i - 1)

RECURSIVE FirstUserTextFrom(_, _)
FirstUserTextFrom(messages, i) ==
  IF i > Len(messages) THEN <<>>
  ELSE IF messages[i].role = "user" /\ messages[i].content # <<>>
    THEN messages[i].content
  ELSE FirstUserTextFrom(messages, i + 1)

getFirstUserText(messages) ==
  IF messages = NotAnArray THEN <<>> ELSE FirstUserTextFrom(messages, 1)
getLastUserText(messages) ==
  IF messages = NotAnArray THEN <<>> ELSE LastUserTextFrom(messages, Len(messages))

\* llm.js:1241-1242, 1293-1294  the image policy of one pipeline call
FlowImagePolicy(messages) == getImagePolicy(getLastUserText(messages))

\* llm.js:1379  the default of maxRetries
RepairDefaultRetries == 3

\* llm.js:1406
FatalRepairError == ErrorOf("Failed to generate valid sandbox code after retries")

\* llm.js:1390  the loop condition attempt < maxRetries
RepairLoopContinuesInclusive(attempt, n) == attempt <= n
RepairLoopContinues(attempt, n) == attempt < n

\* llm.js:1397  the corrective pair is pushed unless the attempt was the last
PushesPairAlways(attempt, n) == TRUE
PushesPair(attempt, n) == attempt < n - 1

\* llm.js:1381-1388  the start of generateWithRepair: the copy of the
\* messages and the error-fix message; spreading a value that is not
\* iterable throws a TypeError
SameArrayAfterAssign(messages) == TRUE
SameArrayAfterSpread(messages) == FALSE

\* Array.prototype.push and the caller's array: the pushed messages show in
\* it when the array pushed to is the caller's array itself
CallerAfterPush(caller, same, pushed) == IF same THEN caller \o pushed ELSE caller

GenerateWithRepairBegins(messages, error, n) ==
  /\ gwMessages' = messages
  /\ callerMessages' =
       IF messages = NotAnArray \/ Falsy(error) THEN messages
       ELSE CallerAfterPush(messages, SameArrayAfterSpread(messages), <<ErrorFixMessage(error)>>)
  /\ gwError' = error
  /\ gwMaxRetries' = n
  /\ gwAttempt' = 0
  /\ gwCalls' = <<>>
  /\ IF messages = NotAnArray
       THEN /\ currentMessages' = <<>>
            /\ gwOutcome' = Throws([name |-> "TypeError", message |-> "messages is not iterable"])
            /\ gwPc' = "thrown"
       ELSE /\ currentMessages' = IF Falsy(error) THEN messages
                                  ELSE Append(messages, ErrorFixMessage(error))
            /\ gwOutcome' = NoOutcome
            /\ gwPc' = "loop"

\* llm.js:1374-1388  generateWithRepair is called by another module
GenerateWithRepairCall ==
  /\ rtPc = "idle"
  /\ gwPc = "idle"
  /\ \E messages \in CallerMessageLists, error \in {Null, <<"boom">>},
        n \in 0..MaxRepairRetries :
       GenerateWithRepairBegins(messages, error, n)
  /\ UNCHANGED routeVars
  /\ ChatOnly

\* llm.js:1390-1404  one attempt: callLLM is awaited; its exception leaves
\* the function, a result with sandbox code is returned, any other result
\* is followed by the corrective pair unless the attempt was the last one
RepairAttempt ==
  /\ gwPc = "loop"
  /\ RepairLoopContinues(gwAttempt, gwMaxRetries)
  /\ \E o \in CallLLMOutcomes :
       /\ gwCalls' = Append(gwCalls, [messages |-> currentMessages, outcome |-> o])
       /\ IF o.kind = "throw"
            THEN /\ gwOutcome' = o /\ gwPc' = "thrown"
                 /\ UNCHANGED <<currentMessages, gwAttempt, callerMessages>>
          ELSE IF FirstSandboxHasCode(o.value.parsed)
            THEN /\ gwOutcome' = o /\ gwPc' = "returned"
                 /\ UNCHANGED <<currentMessages, gwAttempt, callerMessages>>
          ELSE /\ currentMessages' =
                    IF PushesPair(gwAttempt, gwMaxRetries)
                      THEN currentMessages \o <<AssistantMessage(o.value.content),
                                                CorrectiveMessage>>
                      ELSE currentMessages
               /\ callerMessages' =
                    IF PushesPair(gwAttempt, gwMaxRetries)
                      THEN CallerAfterPush(callerMessages, SameArrayAfterSpread(gwMessages),
                                           <<AssistantMessage(o.value.content),
                                             CorrectiveMessage>>)
                      ELSE callerMessages
               /\ gwAttempt' = gwAttempt + 1
               /\ UNCHANGED <<gwOutcome, gwPc>>
  /\ UNCHANGED <<gwMessages, gwError, gwMaxRetries>>
  /\ UNCHANGED routeVars
  /\ ChatOnly

\* llm.js:1390, 1406  the loop is over: the fatal error is thrown
RepairExhausted ==
  /\ gwPc = "loop"
  /\ ~RepairLoopContinues(gwAttempt, gwMaxRetries)
  /\ gwOutcome' = Throws(FatalRepairError)
  /\ gwPc' = "thrown"
  /\ UNCHANGED <<gwMessages, gwError, gwMaxRetries, currentMessages, gwAttempt, gwCalls>>
  /\ UNCHANGED <<routeVars, callerMessages>>
  /\ ChatOnly

\* req.body when no body was parsed, a member that is missing, and the
\* bodies of the model
NoBody == [none |-> TRUE]
Missing == <<[missing |-> TRUE]>>
Bodies ==
  {NoBody} \cup
  {[messages |-> ms, error |-> e] :
     ms \in {Missing, NotAnArray} \cup CallerMessageLists, e \in {Null, <<>>, <<"boom">>}}

\* chat.js:23, 62, 148, 166  res.status(status).json({ error: message })
ErrorResponse(status, message) == [status |-> status, body |-> [error |-> message]]

\* chat.js:54-59, 158-163  res.json({content, parsed, sources, usage})
ResultResponse(result) ==
  [status |-> 200,
   body |-> [content |-> result.content, parsed |-> result.parsed,
             sources |-> result.sources, usage |-> result.usage]]

\* chat.js:60-63, 164-167  the catch block of a handler
HandlerRethrows(e) == [responses |-> <<>>, unhandled |-> TRUE]
HandlerCatch(e) == [responses |-> <<ErrorResponse(500, e.message)>>, unhandled |-> FALSE]

\* The handler sends a response and ends
Responds(response) ==
  /\ rtResponses' = Append(rtResponses, response)
  /\ rtPc' = "done"
  /\ UNCHANGED rtUnhandled

\* An exception reaches the catch block of the handler, which ends
Catches(e) ==
  /\ rtResponses' = rtResponses \o HandlerCatch(e).responses
  /\ rtUnhandled' = HandlerCatch(e).unhandled
  /\ rtPc' = "done"

\* A request arrives at one of the two routes
Request ==
  /\ rtPc = "idle"
  /\ gwPc = "idle"
  /\ \E route \in {"/", "/repair"}, body \in Bodies :
       /\ rtRoute' = route
       /\ rtBody' = body
       /\ callerMessages' = IF body = NoBody THEN Missing ELSE body.messages
  /\ rtPc' = "received"
  /\ UNCHANGED <<rtFirst, rtCalls, rtResponses, rtUnhandled>>
  /\ UNCHANGED repairVars
  /\ ChatOnly

\* chat.js:18-34  POST / up to the first callLLM
PostChatStart ==
  /\ rtPc = "received"
  /\ rtRoute = "/"
  /\ IF rtBody = NoBody
       THEN Catches([name |-> "TypeError", message |-> "Cannot destructure req.body"])
            /\ UNCHANGED rtCalls
     ELSE IF rtBody.messages \in {Missing, NotAnArray}
       THEN Responds(ErrorResponse(400, "Messages array required")) /\ UNCHANGED rtCalls
     ELSE /\ rtCalls' = <<rtBody.messages>>
          /\ rtPc' = "first"
          /\ UNCHANGED <<rtResponses, rtUnhandled>>
  /\ UNCHANGED <<rtRoute, rtBody, rtFirst>>
  /\ UNCHANGED <<repairVars, callerMessages>>
  /\ ChatOnly

\* chat.js:29-59  the first callLLM settles: its exception is caught, a
\* result with sandbox code is sent, any other result starts the repair pass
PostChatFirstGets(o) ==
  /\ rtPc = "first"
  /\   IF o.kind = "throw"
         THEN Catches(o.error) /\ UNCHANGED <<rtFirst, rtCalls, callerMessages>>
       ELSE IF SomeSandboxWithCode(o.value.parsed)
         THEN /\ Responds(ResultResponse(o.value)) /\ rtFirst' = o
              /\ UNCHANGED <<rtCalls, callerMessages>>
       ELSE /\ rtFirst' = o
            /\ rtCalls' = Append(rtCalls, rtBody.messages \o
                                   <<AssistantMessage(o.value.content), RetryMessage>>)
            /\ callerMessages' =
                 CallerAfterPush(callerMessages, SameArrayAfterSpread(rtBody.messages),
                                 <<AssistantMessage(o.value.content), RetryMessage>>)
            /\ rtPc' = "second"
            /\ UNCHANGED <<rtResponses, rtUnhandled>>
  /\ UNCHANGED <<rtRoute, rtBody>>
  /\ UNCHANGED repairVars
  /\ ChatOnly

PostChatFirst == \E o \in CallLLMOutcomes : PostChatFirstGets(o)

\* chat.js:46-59  the second callLLM settles: its exception is caught, its
\* result is sent
PostChatSecondGets(o) ==
  /\ rtPc = "second"
  /\ IF o.kind = "throw" THEN Catches(o.error) ELSE Responds(ResultResponse(o.value))
  /\ UNCHANGED <<rtRoute, rtBody, rtFirst, rtCalls>>
  /\ UNCHANGED <<repairVars, callerMessages>>
  /\ ChatOnly

PostChatSecond == \E o \in CallLLMOutcomes : PostChatSecondGets(o)

\* chat.js:143-156  POST /repair up to the call of generateWithRepair
PostRepairStart ==
  /\ rtPc = "received"
  /\ rtRoute = "/repair"
  /\ IF rtBody = NoBody
       THEN /\ Catches([name |-> "TypeError", message |-> "Cannot destructure req.body"])
            /\ UNCHANGED <<repairVars, callerMessages>>
     ELSE IF rtBody.messages = Missing \/ Falsy(rtBody.error)
       THEN /\ Responds(ErrorResponse(400, "Messages and error required"))
            /\ UNCHANGED <<repairVars, callerMessages>>
     ELSE /\ GenerateWithRepairBegins(rtBody.messages, rtBody.error, RepairDefaultRetries)
          /\ rtPc' = "repair"
          /\ UNCHANGED <<rtResponses, rtUnhandled>>
  /\ UNCHANGED <<rtRoute, rtBody, rtFirst, rtCalls>>
  /\ ChatOnly

\* chat.js:151-167  generateWithRepair settles: its result is sent, its
\* exception is caught
PostRepairSettles ==
  /\ rtPc = "repair"
  /\ gwPc \in {"returned", "thrown"}
  /\ IF gwOutcome.kind = "throw" THEN Catches(gwOutcome.error)
                                 ELSE Responds(ResultResponse(gwOutcome.value))
  /\ UNCHANGED <<rtRoute, rtBody, rtFirst, rtCalls>>
  /\ UNCHANGED <<repairVars, callerMessages>>
  /\ ChatOnly

ChatNext ==
  \/ GenerateWithRepairCall \/ RepairAttempt \/ RepairExhausted
  \/ Request \/ PostChatStart \/ PostChatFirst \/ PostChatSecond
  \/ PostRepairStart \/ PostRepairSettles

SpecChat == InitAll /\ [][ChatNext]_vars

\* Every call of callLLM made so far returned a result without sandbox code
EveryResultLacksSandbox ==
  \A i \in 1..Len(gwCalls) :
    /\ gwCalls[i].outcome.kind = "return"
    /\ ~FirstSandboxHasCode(gwCalls[i].outcome.value.parsed)

\* C2: generateWithRepair, called with a list of messages and maxRetries = n,
\* never calls callLLM more than n times and never returns a result without
\* sandbox code; when every result lacked sandbox code it ends, after exactly
\* n calls, by throwing 'Failed to generate valid sandbox code after retries'.
C2_RepairAttemptsExact ==
  /\ Len(gwCalls) <= gwMaxRetries
  /\ gwPc = "returned" =>
       /\ gwOutcome.kind = "return"
       /\ FirstSandboxHasCode(gwOutcome.value.parsed)
  /\ (gwPc \in {"returned", "thrown"} /\ gwMessages # NotAnArray /\ EveryResultLacksSandbox) =>
       /\ Len(gwCalls) = gwMaxRetries
       /\ gwOutcome = Throws(FatalRepairError)

\* C2 witness: with maxRetries = 3 three results without sandbox code were
\* received and the fatal error was thrown.
C2_Witness ==
  /\ gwPc = "thrown"
  /\ gwMaxRetries = 3
  /\ Len(gwCalls) = 3
  /\ EveryResultLacksSandbox
  /\ gwOutcome = Throws(FatalRepairError)

IsResultBody(body) == DOMAIN body = {"content", "parsed", "sources", "usage"}

IsErrorBody(body) == DOMAIN body = {"error"} /\ body.error \in STRING

\* C6: a request to POST / or POST /repair never gets a second response and
\* no exception leaves its handler; when the handler has ended exactly one
\* response was sent: the result {content, parsed, sources, usage}, or an
\* error status with the body {error: <message string>}.
C6_OneResponseOrError ==
  /\ ~rtUnhandled
  /\ Len(rtResponses) <= 1
  /\ rtPc = "done" =>
       /\ Len(rtResponses) = 1
       /\ \/ rtResponses[1].status = 200 /\ IsResultBody(rtResponses[1].body)
          \/ rtResponses[1].status \in {400, 500} /\ IsErrorBody(rtResponses[1].body)

\* C6 witness: POST /repair exhausted its attempts and the fatal error was
\* sent as the error response.
C6_Witness ==
  /\ rtPc = "done"
  /\ rtRoute = "/repair"
  /\ Len(gwCalls) = RepairDefaultRetries
  /\ rtResponses = <<ErrorResponse(500, FatalRepairError.message)>>

(***************************************************************************)
(* Calls of getImagePolicy.                                                 *)
(***************************************************************************)
\* A call getImagePolicy(text)
PolicyCall ==
  /\ ipPc = "idle"
  /\ \E text \in SeqsUpTo(Phrases, MaxTextLen) : ipText' = text
  /\ ipPc' = "called"
  /\ UNCHANGED ipPolicy
  /\ PolicyOnly

\* llm.js:403-409  the call returns
PolicyRun ==
  /\ ipPc = "called"
  /\ ipPolicy' = getImagePolicy(ipText)
  /\ ipPc' = "done"
  /\ UNCHANGED ipText
  /\ PolicyOnly

PolicyNext == PolicyCall \/ PolicyRun

SpecPolicy == InitAll /\ [][PolicyNext]_vars

HasPhrase(text, S) == \E i \in 1..Len(text) : text[i] \in S

\* C11: a text with a news phrase gets {none, 0} whatever else it holds;
\* otherwise a text with an explicit image request gets {explicit, 3}, also
\* when it asks for a visual aid; otherwise a text that asks for a visual aid
\* gets {assist, 2}; every other text gets {none, 0}.
C11_PolicyPrecedence ==
  ipPc = "done" =>
    IF HasPhrase(ipText, {"News", "headline"})
      THEN ipPolicy = [mode |-> "none", max |-> 0]
    ELSE IF HasPhrase(ipText, {"generate  image", "Create image"})
      THEN ipPolicy = [mode |-> "explicit", max |-> 3]
    ELSE IF HasPhrase(ipText, {"chart", "timeline"})
      THEN ipPolicy = [mode |-> "assist", max |-> 2]
    ELSE ipPolicy = [mode |-> "none", max |-> 0]

\* C11 witness: a text that asks for an image, for a chart and for news
\* got the policy none.
C11_Witness ==
  /\ ipPc = "done"
  /\ ipText = <<"Create image", "chart", "News">>
  /\ ipPolicy = [mode |-> "none", max |-> 0]

\* C12: in a callLLM turn whose image policy has mode none the image
\* generator is not invoked: not for the plan, not from the user text, not
\* by a generate_image tool call.
C12_NoImagesWhenNone ==
  imagePolicy.mode = "none" => imageCalls = {}

\* C12 witness: a news request that also asks for an image, with web search;
\* the model called generate_image, the call was refused and the turn
\* returned without an invocation of the generator.
C12_Witness ==
  /\ tlPc = "returned"
  /\ lastUserText = <<"News", "Create image">>
  /\ webSearchEnabled
  /\ tlToolOutputs = <<[call |-> "generate_image",
                        error |-> "Image generation disabled for this request."]>>
  /\ imageCalls = {}

(***************************************************************************)
(* ensurePlanImages: generated images for the items of a plan.             *)
(*                                                                         *)
(* An image url is a sequence of tokens or Null.                           *)
(***************************************************************************)
LogoImage == <<"https://x/", "Logo", ".png">>
PhotoImage == <<"https://x/", "photo", ".jpg">>

\* llm.js:418  url.toLowerCase(), token by token
LowerToken(t) == IF t = "Logo" THEN "logo" ELSE t

\* llm.js:419-428  the words that mark a low-value image
LowValueWords ==
  {"logo", "favicon", "sprite", "icon", "placeholder", "spacer", "default",
   "picsum.photos"}

\* llm.js:416-429
isLikelyLowValueImageUrl(url) ==
  \/ Falsy(url)
  \/ \E k \in 1..Len(url) : LowerToken(url[k]) \in LowValueWords

\* The items a plan can hold: a title and an image that is missing, of low
\* value or a real picture.
ImageItems ==
  {[title |-> t, image |-> i] : t \in {<<"a">>, <<"b">>},
                                i \in {Null, LogoImage, PhotoImage}}
  \cup {[title |-> <<"a">>, image |-> PhotoImage, image_fallback |-> LogoImage]}

\* llm.js:449-461  generateImageForPrompt resolves to an image with a url,
\* or to null when the generator fails; the k-th call gets its own url
GeneratedNames == <<"g1", "g2", "g3", "g4">>
GeneratedUrl(k) == <<"/generated/", GeneratedNames[k]>>
GeneratorResults(k) == {Null, GeneratedUrl(k)}

\* What generateOpenAIImage / generateGeminiImage do in the k-th call: they
\* throw, or resolve to no image, or to an image with a url
GeneratorThrows == <<"<throws>">>
NotTried == <<"<not tried>">>
GeneratorOutcomes(k) == {GeneratorThrows} \cup GeneratorResults(k)

\* llm.js:449-461  the catch block logs what the generator throws and the
\* function returns null
generateImageForPromptRethrows(outcome) == outcome
generateImageForPrompt(outcome) == IF outcome = GeneratorThrows THEN Null ELSE outcome

\* llm.js:470  generatedCount < max
UnderCapInclusive(count, max) == count <= max
UnderCap(count, max) == count < max

\* llm.js:471  needsImage
NeedsImageAlways(item, force) == TRUE
NeedsImage(item, force) ==
  force \/ Falsy(Get(item, "image")) \/ isLikelyLowValueImageUrl(Get(item, "image"))

\* llm.js:475-482  the item after a successful generation
WithGeneratedImage(item, url) ==
  Spread(item,
         [image |-> IF ~Falsy(Get(item, "image")) /\ ~isLikelyLowValueImageUrl(Get(item, "image"))
                      THEN item.image ELSE url,
          image_fallback |-> url,
          generated_image |-> url])

\* llm.js:463-467  ensurePlanImages is called; a plan without an items array
\* is returned as it is
EnsurePlanImagesCall ==
  /\ epPc = "idle"
  /\ \E items \in {NotAnArray} \cup SeqsUpTo(ImageItems, MaxItems),
        max \in 0..ExplicitMax, force \in BOOLEAN :
       /\ epItems' = items
       /\ epMax' = max
       /\ epForce' = force
       /\ IF items = NotAnArray
            THEN epPc' = "done" /\ epResult' = items
            ELSE epPc' = "loop" /\ epResult' = epResult
  /\ epIndex' = 0
  /\ generatedCount' = 0
  /\ updatedItems' = <<>>
  /\ epGenerated' = <<>>
  /\ epTried' = <<>>
  /\ ImagesOnly

\* llm.js:468-485  one round of the loop over plan.items
EnsureItem ==
  /\ epPc = "loop"
  /\ epIndex < Len(epItems)
  /\ LET item == epItems[epIndex + 1] IN
       IF UnderCap(generatedCount, epMax) /\ NeedsImage(item, epForce)
         THEN \E outcome \in GeneratorOutcomes(Len(epGenerated) + 1) :
                LET generated == generateImageForPrompt(outcome) IN
                /\ epTried' = Append(epTried, outcome)
                /\ IF generated = GeneratorThrows
                     THEN \* nothing in ensurePlanImages catches an error
                          /\ epPc' = "thrown"
                          /\ UNCHANGED <<epGenerated, updatedItems, generatedCount>>
                     ELSE /\ epPc' = epPc
                          /\ epGenerated' = Append(epGenerated, generated)
                          /\ IF generated # Null
                               THEN /\ updatedItems' = Append(updatedItems,
                                                              WithGeneratedImage(item, generated))
                                    /\ generatedCount' = generatedCount + 1
                               ELSE /\ updatedItems' = Append(updatedItems, item)
                                    /\ generatedCount' = generatedCount
         ELSE /\ updatedItems' = Append(updatedItems, item)
              /\ epTried' = Append(epTried, NotTried)
              /\ UNCHANGED <<epPc, epGenerated, generatedCount>>
  /\ epIndex' = epIndex + 1
  /\ UNCHANGED <<epItems, epMax, epForce, epResult>>
  /\ ImagesOnly

\* llm.js:487-491  the plan is returned with the updated items
EnsureReturn ==
  /\ epPc = "loop"
  /\ epIndex = Len(epItems)
  /\ epResult' = updatedItems
  /\ epPc' = "done"
  /\ UNCHANGED <<epItems, epMax, epForce, epIndex, generatedCount, updatedItems, epGenerated,
                 epTried>>
  /\ ImagesOnly

ImagesNext == EnsurePlanImagesCall \/ EnsureItem \/ EnsureReturn

SpecImages == InitAll /\ [][ImagesNext]_vars

AllLackImage(items) == \A k \in 1..Len(items) : items[k].image = Null
GeneratorAlwaysSucceeded == \A k \in 1..Len(epTried) : epTried[k] \notin {GeneratorThrows, Null}

\* C13: for a plan of n items that all lack an image, a cap max = m and a
\* generator that always succeeds, ensurePlanImages gives a generated_image
\* to the first min(m, n) items and to no other; the other items keep image
\* null; the number and the order of the items are unchanged.
C13_FirstMinGetImages ==
  (epPc = "done" /\ epItems # NotAnArray /\ AllLackImage(epItems) /\ GeneratorAlwaysSucceeded)
    => /\ Len(epResult) = Len(epItems)
       /\ \A k \in 1..Len(epItems) :
            /\ epResult[k].title = epItems[k].title
            /\ IF k <= Min({epMax, Len(epItems)})
                 THEN /\ "generated_image" \in DOMAIN epResult[k]
                      /\ epResult[k].generated_image = GeneratedUrl(k)
                 ELSE /\ "generated_image" \notin DOMAIN epResult[k]
                      /\ epResult[k].image = Null

\* C13 witness: two items without image, titles b then a, max 1: the first
\* item got the generated image, the second none.
C13_Witness ==
  /\ epPc = "done"
  /\ epMax = 1
  /\ epItems = <<[title |-> <<"b">>, image |-> Null], [title |-> <<"a">>, image |-> Null]>>
  /\ epGenerated = <<GeneratedUrl(1)>>
  /\ epResult[1].generated_image = GeneratedUrl(1)
  /\ DOMAIN epResult[2] = {"title", "image"}

(***************************************************************************)
(* Response parser: the fenced contract and the salvage path.              *)
(***************************************************************************)
\* The text is ```json, a JSON object, ```, with white space around the
\* object at most.
FencedObjectText(toks) ==
  /\ Len(toks) >= 3
  /\ toks[1] = "FJ"
  /\ toks[Len(toks)] = "F"
  /\ JsonParse(Trim(SubSeq(toks, 2, Len(toks) - 1))).ok

\* The object between the fences
FencedObject(toks) == JsonParse(Trim(SubSeq(toks, 2, Len(toks) - 1))).val

\* C14: a text that is one fenced JSON object with type sandbox and a code
\* field parses to a list of one result, which is that object.
C14_FencedSandboxAsIs ==
  (/\ prPc = "done"
   /\ prContent.t = "string"
   /\ FencedObjectText(prContent.toks)
   /\ FencedObject(prContent.toks).type = Str("sandbox")
   /\ FencedObject(prContent.toks).code # Absent)
    => prOutcome = Returns(<<FencedObject(prContent.toks)>>)

\* C14, where it fails: the App.js string of the fenced object holds a
\* ```json block of its own, and the answer is a plain message.
C14_Failure ==
  /\ prPc = "done"
  /\ prContent = StringContent(<<"FJ", "WS", "LB", "TS", "KC", "LB", "APPMD", "CSS",
                                 "RB", "RB", "WS", "F">>)
  /\ prOutcome = Returns(<<MessageResult(prContent)>>)

\* llm.js:170-179  the text looks like JSON, the outermost braces are found
\* and JSON.parse of the text between them throws
JsonWrapperFails(cleaned) ==
  LET trimmedCleaned == Trim(cleaned)
      starts == IndexSet(cleaned, {"LB"})
      ends == IndexSet(cleaned, {"RB"})
  IN /\ trimmedCleaned # <<>>
     /\ trimmedCleaned[1] \in {"LB", "LBK"}
     /\ starts # {} /\ ends # {} /\ Max(ends) > Min(starts)
     /\ ~JsonParse(SubSeq(cleaned, Min(starts), Max(ends))).ok

\* The styles.css the salvage is said to give: the unescaped first
\* styles.css field, or "" without such a field
ExpectedCss(cleaned) ==
  LET cssIdx == IndexSet(cleaned, {"CSS", "CSSBAD"}) IN
  IF cssIdx = {} THEN "" ELSE Unescape(RawOf(cleaned[Min(cssIdx)])).str

C15_Failure ==
  /\ prPc = "done"
  /\ prContent = StringContent(<<"LB", "TS", "KC", "LB", "APP", "CSSBAD", "RB", "RB">>)
  /\ prOutcome = Returns(<<FailedToParse>>)

\* The first App.js field of the text is intact, and so is its first
\* styles.css field if there is one.
FirstFieldsIntact(cleaned) ==
  LET codeIdx == IndexSet(cleaned, {"APP", "APPBAD", "APPMD"})
      cssIdx == IndexSet(cleaned, {"CSS", "CSSBAD"})
  IN /\ codeIdx # {}
     /\ cleaned[Min(codeIdx)] = "APP"
     /\ cssIdx # {} => cleaned[Min(cssIdx)] = "CSS"

C16_PlanNonEmptyWithSources ==
  (plPc = "planned" /\ enrichedSources # <<>>)
    => /\ planWithImages # NotAnArray
       /\ Len(planWithImages) >= 1
       /\ (forceSourceItems \/ plItems = NotAnArray \/ plItems = <<>>)
            => Len(planWithImages) <= SourceItemsMax

\* C16 witness: the model's plan had no items array and the request did not
\* force source items; two sources were enriched and the plan has two items.
C16_Witness ==
  /\ plPc = "planned"
  /\ plItems = NotAnArray
  /\ ~forceSourceItems
  /\ Len(enrichedSources) = 2
  /\ planWithImages # NotAnArray
  /\ Len(planWithImages) = 2

\* C17: a missing API key is fatal and not retried: once a provider
\* invocation has failed for the missing key, no request goes out and no
\* further provider invocation is attempted in that turn (the planner's
\* downgrade steps included), and callLLM fails with exactly the
\* '<PROVIDER>_API_KEY not configured' error.
C17_MissingKeyFatal ==
  /\ keyErrors <= 1
  /\ keyErrors >= 1 => /\ httpInvocations = 0
                       /\ Len(plannerCalls) <= 1
                       /\ tlPc = "thrown"
                       /\ tlOutcome = Throws(MissingKeyError(provider))

\* C17, where it fails: no Gemini key and web search on; the planner has
\* invoked the provider three times, each time stopped by the key check,
\* before callLLM fails with the key error.
C17_Failure ==
  /\ tlPc = "thrown"
  /\ provider = "gemini"
  /\ ~apiKeyConfigured
  /\ Len(plannerCalls) = 3
  /\ keyErrors = 3
  /\ httpInvocations = 0
  /\ tlOutcome = Throws(MissingKeyError("gemini"))

\* What holds of a turn without the key: no provider invocation reaches
\* fetchWithRetry, and the turn can only fail, with the key error.
MissingKeySurfaces ==
  ~apiKeyConfigured
    => /\ httpInvocations = 0
       /\ tlPc \notin {"returned", "loop", "planned"}
       /\ tlPc = "thrown" => tlOutcome \in {Throws(MissingKeyError(provider)),
                                             Throws(ErrorOf("Unknown provider"))}

RepairPassWitness ==
  /\ rtPc = "done"
  /\ rtRoute = "/"
  /\ Len(rtCalls) = 2
  /\ Len(rtCalls[2]) = Len(rtBody.messages) + 2
  /\ callerMessages = rtBody.messages

(***************************************************************************)
(* The streaming route POST /stream, run next to POST / on the same        *)
(* request body and against the same behaviour of the pipeline.            *)
(***************************************************************************)
\* The pings written during one request are counted up to this bound
MaxPings == 1

\* chat.js:6-15  sendSseEvent(res, event, payload)
SseEvent(event, payload) == [event |-> event, data |-> payload]

\* chat.js:87-89  the payload of a ping is the time
Ping == SseEvent("ping", [t |-> "now"])

\* chat.js:124-129  the payload of the result event
ResultPayloadBare(result) == [content |-> result.content, parsed |-> result.parsed]
ResultPayload(result) ==
  [content |-> result.content, parsed |-> result.parsed,
   sources |-> result.sources, usage |-> result.usage]

\* chat.js:123-130, 133-135  an event is written unless `closed` is set
EmitUnlessClosed(closed, event) == IF closed THEN <<>> ELSE <<event>>

\* clearInterval(timer): an interval that was never set stays unset
clearInterval(timer) == IF timer = "running" THEN "cleared" ELSE timer

\* chat.js:6-8  sendSseEvent writes nothing once the response has ended
sendSseEvent(ended, events, event) == IF ended THEN events ELSE Append(events, event)

\* chat.js:136-139  the finally block: the interval is cleared, and
\* res.end() is called unless `closed` is set
StreamEndsKeepsTimer ==
  /\ stEnded' = (stEnded \/ ~stClosed)
  /\ stPingTimer' = stPingTimer
  /\ stPc' = "done"
StreamEnds ==
  /\ stEnded' = (stEnded \/ ~stClosed)
  /\ stPingTimer' = clearInterval(stPingTimer)
  /\ stPc' = "done"

\* The same request reaches POST / and POST /stream, and the pipeline will
\* answer the first and the second callLLM of either handler the same way
TwinRequest ==
  /\ rtPc = "idle"
  /\ stPc = "idle"
  /\ gwPc = "idle"
  /\ \E body \in Bodies, o1 \in CallLLMOutcomes, o2 \in CallLLMOutcomes :
       /\ rtBody' = body
       /\ callerMessages' = IF body = NoBody THEN Missing ELSE body.messages
       /\ stScript' = <<o1, o2>>
  /\ rtRoute' = "/"
  /\ rtPc' = "received"
  /\ stPc' = "received"
  /\ UNCHANGED <<rtFirst, rtCalls, rtResponses, rtUnhandled>>
  /\ UNCHANGED <<stCalls, stEvents, stResponses, stClosed, stEnded, stPingTimer>>
  /\ UNCHANGED <<httpVars, parseVars, enrichVars, planVars, toolVars, repairVars,
                 policyVars, imagesVars, attachVars, roundVars, invokeVars, clientVars>>

\* POST / gets the scripted outcomes
TwinChatFirst == stScript # <<>> /\ PostChatFirstGets(stScript[1])
TwinChatSecond == stScript # <<>> /\ PostChatSecondGets(stScript[2])

\* chat.js:71-103  POST /stream up to the first callLLM: a missing body
\* throws into the catch block, a body without messages array is answered
\* with res.status(400).json, else the event stream is opened
StreamStart ==
  /\ stPc = "received"
  /\ IF rtBody = NoBody
       THEN /\ stEvents' = stEvents \o
                 EmitUnlessClosed(stClosed, SseEvent("error",
                                    [error |-> "Cannot destructure req.body"]))
            /\ StreamEnds
            /\ UNCHANGED <<stCalls, stResponses>>
     ELSE IF rtBody.messages \in {Missing, NotAnArray}
       THEN /\ stResponses' = Append(stResponses, ErrorResponse(400, "Messages array required"))
            /\ stEnded' = TRUE
            /\ stPingTimer' = clearInterval(stPingTimer)
            /\ stPc' = "done"
            /\ UNCHANGED <<stCalls, stEvents>>
     ELSE /\ stEvents' = sendSseEvent(stEnded, stEvents, SseEvent("ready", [ok |-> TRUE]))
          /\ stPingTimer' = "running"
          /\ stCalls' = <<rtBody.messages>>
          /\ stPc' = "first"
          /\ UNCHANGED <<stResponses, stEnded>>
  /\ UNCHANGED <<stScript, stClosed>>
  /\ StreamOnly

\* chat.js:98-139  the first callLLM settles: its exception goes to the
\* catch block, a result with sandbox code is sent, any other result starts
\* the repair pass
StreamFirst ==
  /\ stPc = "first"
  /\ LET o == stScript[1] IN
       IF o.kind = "throw"
         THEN /\ stEvents' = stEvents \o
                   EmitUnlessClosed(stClosed, SseEvent("error", [error |-> o.error.message]))
              /\ StreamEnds
              /\ UNCHANGED stCalls
       ELSE IF SomeSandboxWithCode(o.value.parsed)
         THEN /\ stEvents' = stEvents \o
                   EmitUnlessClosed(stClosed, SseEvent("result", ResultPayload(o.value)))
              /\ StreamEnds
              /\ UNCHANGED stCalls
       ELSE /\ stCalls' = Append(stCalls, rtBody.messages \o
                                   <<AssistantMessage(o.value.content), RetryMessage>>)
            /\ stPc' = "second"
            /\ UNCHANGED <<stEvents, stEnded, stPingTimer>>
  /\ UNCHANGED <<stScript, stResponses, stClosed>>
  /\ StreamOnly

\* chat.js:115-139  the second callLLM settles
StreamSecond ==
  /\ stPc = "second"
  /\ LET o == stScript[2] IN
       stEvents' = stEvents \o
         EmitUnlessClosed(stClosed,
           IF o.kind = "throw" THEN SseEvent("error", [error |-> o.error.message])
                               ELSE SseEvent("result", ResultPayload(o.value)))
  /\ StreamEnds
  /\ UNCHANGED <<stScript, stCalls, stResponses, stClosed>>
  /\ StreamOnly

\* chat.js:87-89  the interval fires as long as it has not been cleared
StreamPing ==
  /\ stPingTimer = "running"
  /\ Cardinality({i \in 1..Len(stEvents) : stEvents[i] = Ping}) < MaxPings
  /\ stEvents' = sendSseEvent(stEnded, stEvents, Ping)
  /\ UNCHANGED <<stPc, stScript, stCalls, stResponses, stClosed, stEnded, stPingTimer>>
  /\ StreamOnly

\* chat.js:91-94  the request's close event
ClientCloses ==
  /\ stPc \in {"first", "second"}
  /\ ~stClosed
  /\ stClosed' = TRUE
  /\ stPingTimer' = clearInterval(stPingTimer)
  /\ UNCHANGED <<stPc, stScript, stCalls, stEvents, stResponses, stEnded>>
  /\ StreamOnly

StreamNext ==
  \/ TwinRequest \/ PostChatStart \/ TwinChatFirst \/ TwinChatSecond
  \/ StreamStart \/ StreamFirst \/ StreamSecond \/ StreamPing \/ ClientCloses

SpecStream == InitAll /\ [][StreamNext]_vars

\* The events of one kind, in order
RECURSIVE EventsOf(_, _)
EventsOf(events, kind) ==
  IF events = <<>> THEN <<>>
  ELSE (IF Head(events).event = kind THEN <<Head(events)>> ELSE <<>>)
         \o EventsOf(Tail(events), kind)

BothDone == rtPc = "done" /\ stPc = "done" /\ Len(rtResponses) = 1

\* C19: for the same body and the same behaviour of the pipeline, POST
\* /stream makes the calls of callLLM that POST / makes, with the same
\* messages; while the client stays connected, the payload of its one result
\* event is the JSON body of the response of POST /, and when POST / answers
\* with an error the stream writes one error event with the same message.
C19_StreamSameAsChat ==
  BothDone =>
    /\ stCalls = rtCalls
    /\ ~stClosed =>
         IF rtResponses[1].status = 200
           THEN /\ EventsOf(stEvents, "result") = <<SseEvent("result", rtResponses[1].body)>>
                /\ EventsOf(stEvents, "error") = <<>>
           ELSE /\ EventsOf(stEvents, "error") = <<SseEvent("error", rtResponses[1].body)>>
                /\ EventsOf(stEvents, "result") = <<>>

\* C19, amended: as C19 for the results and for the errors of the pipeline
\* (status 500); a request without a messages array is answered by both
\* routes with the same JSON response of status 400, and the stream writes
\* no event at all.
C19_StreamSameExceptValidation ==
  BothDone =>
    /\ stCalls = rtCalls
    /\ ~stClosed =>
         CASE rtResponses[1].status = 200 ->
                /\ EventsOf(stEvents, "result") = <<SseEvent("result", rtResponses[1].body)>>
                /\ EventsOf(stEvents, "error") = <<>>
                /\ stResponses = <<>>
           [] rtResponses[1].status = 500 ->
                /\ EventsOf(stEvents, "error") = <<SseEvent("error", rtResponses[1].body)>>
                /\ EventsOf(stEvents, "result") = <<>>
                /\ stResponses = <<>>
           [] OTHER ->
                /\ rtResponses[1].status = 400
                /\ stResponses = rtResponses
                /\ stEvents = <<>>

\* C19 witness: both routes made the repair pass on the same two message
\* lists, the second call threw, POST / answered 500 and the stream, after
\* ready and a ping, wrote the error event with that message.
C19_Witness ==
  /\ BothDone
  /\ ~stClosed
  /\ Len(stCalls) = 2
  /\ stCalls = rtCalls
  /\ rtResponses[1].status = 500
  /\ Len(stEvents) = 3
  /\ stEvents[2] = Ping
  /\ stEvents[3] = SseEvent("error", rtResponses[1].body)

\* C19, where the original statement fails: the body has no messages array;
\* POST / answered 400 and the stream wrote no error event.
C19_Failure ==
  /\ BothDone
  /\ rtResponses[1].status = 400
  /\ stEvents = <<>>
  /\ stResponses = rtResponses

(***************************************************************************)
(* Provider adapters for attachments: buildAttachmentNote,                 *)
(* buildOpenAIInput, buildGeminiContents.                                  *)
(*                                                                         *)
(* A field an attachment lacks is the empty string.                        *)
(***************************************************************************)
MaxAttachments == 2

Attachment(name, prov, kind, fileId, fileUri, mime) ==
  [name |-> name, provider |-> prov, kind |-> kind, fileId |-> fileId,
   fileUri |-> fileUri, mimeType |-> mime, publicUrl |-> "/uploads/" \o name]

\* Attachments as the upload route may have stored them: with and without
\* a declared provider, a file id, a file URI and a MIME type
Attachments ==
  { Attachment("a.png", "", "image", "file-a", "uri-a", "image/png"),
    Attachment("b.pdf", "openai", "pdf", "file-b", "", "application/pdf"),
    Attachment("c.png", "gemini", "image", "file-c", "uri-c", "image/png"),
    Attachment("d.png", "openai", "image", "", "uri-d", ""),
    Attachment("e.pdf", "gemini", "pdf", "file-e", "", "application/pdf"),
    Attachment("f.txt", "", "text", "file-f", "uri-f", "text/plain") }

\* One message: its role, its text and its attachments
ChatMessage(role, content, atts) == [role |-> role, content |-> content, attachments |-> atts]

\* The message lists of the model: one message with attachments, alone or
\* after an earlier user message without any
AttachMessageLists ==
  {prefix \o <<ChatMessage(role, content, atts)>> :
     prefix \in {<<>>, <<ChatMessage("user", "hi", <<>>)>>},
     role \in {"user", "assistant"},
     content \in {"", "look"},
     atts \in SeqsUpTo(Attachments, MaxAttachments)}

\* Array.prototype.filter
Filter(list, Keep(_)) == SelectSeq(list, Keep)

\* llm.js:260, 308  the attachments the adapter of provider p takes
ForAnyProvider(att, p) == TRUE
ForProvider(att, p) == att.provider = "" \/ att.provider = p

\* llm.js:239-248  the note: one line per attachment with name, MIME type
\* (or 'unknown') and public URL; null without attachments
NoteLine(att) ==
  [name |-> att.name,
   mimeType |-> IF att.mimeType = "" THEN "unknown" ELSE att.mimeType,
   publicUrl |-> att.publicUrl]
buildAttachmentNote(attachments) ==
  IF attachments = <<>> THEN <<>>
  ELSE <<[lines |-> [k \in 1..Len(attachments) |-> NoteLine(attachments[k])]]>>

\* llm.js:261-267  the native parts of buildOpenAIInput for one attachment
OpenAINativeParts(att) ==
  IF att.fileId # "" /\ att.kind = "image" THEN <<[type |-> "input_image", file_id |-> att.fileId]>>
  ELSE IF att.fileId # "" /\ att.kind = "pdf" THEN <<[type |-> "input_file", file_id |-> att.fileId]>>
  ELSE <<>>

\* llm.js:309-318  the native parts of buildGeminiContents for one attachment
GeminiNativeParts(att) ==
  IF att.fileUri # ""
    THEN <<[file_data |-> [mime_type |-> att.mimeType, file_uri |-> att.fileUri]]>>
    ELSE <<>>

\* The lists of a list, one after the other
RECURSIVE Concat(_)
Concat(lists) == IF lists = <<>> THEN <<>> ELSE Head(lists) \o Concat(Tail(lists))

\* One push per element of F(x), for every x of the list in order
FlatMap(list, F(_)) == Concat([k \in 1..Len(list) |-> F(list[k])])

\* llm.js:253-279  the entry of one message in the input of OpenAI
OpenAIEntry(message, include) ==
  LET isAssistant == message.role = "assistant"
      textType == IF isAssistant THEN "output_text" ELSE "input_text"
      withAttachments == ~isAssistant /\ include /\ message.attachments # <<>>
      native == IF withAttachments
                  THEN FlatMap(Filter(message.attachments, LAMBDA a : ForProvider(a, "openai")),
                               OpenAINativeParts)
                  ELSE <<>>
      note == IF withAttachments
                THEN [k \in 1..Len(buildAttachmentNote(message.attachments)) |->
                        [type |-> textType, note |-> buildAttachmentNote(message.attachments)[k]]]
                ELSE <<>>
      text == IF message.content # "" THEN <<[type |-> textType, text |-> message.content]>>
                                       ELSE <<>>
      parts == native \o note \o text
  IN IF parts = <<>> THEN <<>>
     ELSE <<[role |-> IF isAssistant THEN "assistant" ELSE "user", parts |-> parts]>>

\* llm.js:303-331  the entry of one message in the contents of Gemini
GeminiEntry(message, include) ==
  LET withAttachments == include /\ message.attachments # <<>>
      native == IF withAttachments
                  THEN FlatMap(Filter(message.attachments, LAMBDA a : ForProvider(a, "gemini")),
                               GeminiNativeParts)
                  ELSE <<>>
      note == IF withAttachments
                THEN [k \in 1..Len(buildAttachmentNote(message.attachments)) |->
                        [note |-> buildAttachmentNote(message.attachments)[k]]]
                ELSE <<>>
      text == IF message.content # "" THEN <<[text |-> message.content]>> ELSE <<>>
      parts == native \o note \o text
  IN IF parts = <<>> THEN <<>>
     ELSE <<[role |-> IF message.role = "assistant" THEN "model" ELSE "user",
             parts |-> parts]>>

\* llm.js:250-285
buildOpenAIInput(messages, include) ==
  FlatMap(messages, LAMBDA msg : OpenAIEntry(msg, include))

\* llm.js:300-336
buildGeminiContents(messages, include) ==
  FlatMap(messages, LAMBDA msg : GeminiEntry(msg, include))

\* A call of one of the two adapters
AdapterCall ==
  /\ atPc = "idle"
  /\ \E p \in PROVIDERS, messages \in AttachMessageLists, include \in BOOLEAN :
       /\ atAdapter' = p
       /\ atMessages' = messages
       /\ atInclude' = include
  /\ atPc' = "called"
  /\ UNCHANGED atOutput
  /\ AttachOnly

\* llm.js:250-285, 300-336  the call runs to its return
AdapterRun ==
  /\ atPc = "called"
  /\ atOutput' = IF atAdapter = "openai" THEN buildOpenAIInput(atMessages, atInclude)
                                         ELSE buildGeminiContents(atMessages, atInclude)
  /\ atPc' = "done"
  /\ UNCHANGED <<atAdapter, atMessages, atInclude>>
  /\ AttachOnly

AttachNext == AdapterCall \/ AdapterRun

SpecAttach == InitAll /\ [][AttachNext]_vars

\* All parts of the output, and all attachments of the messages
AllParts == FlatMap(atOutput, LAMBDA entry : entry.parts)
AllAttachments == FlatMap(atMessages, LAMBDA msg : msg.attachments)

\* The file ids and file URIs the output refers to natively
NativeRefs ==
  {AllParts[k].file_id : k \in {j \in 1..Len(AllParts) : "file_id" \in DOMAIN AllParts[j]}}
    \cup {AllParts[k].file_data.file_uri :
            k \in {j \in 1..Len(AllParts) : "file_data" \in DOMAIN AllParts[j]}}

\* The id by which the adapter would refer to the attachment
RefOf(att) == IF atAdapter = "openai" THEN att.fileId ELSE att.fileUri

\* The lines of the notes in the output
NoteLines ==
  UNION {{AllParts[k].note.lines[i] : i \in 1..Len(AllParts[k].note.lines)} :
           k \in {j \in 1..Len(AllParts) : "note" \in DOMAIN AllParts[j]}}

\* Native references go only to attachments meant for this provider
NativeOnlyForProvider ==
  \A ref \in NativeRefs :
    \E k \in 1..Len(AllAttachments) :
      /\ RefOf(AllAttachments[k]) = ref
      /\ AllAttachments[k].provider \in {"", atAdapter}

\* Attachments of user messages declared for the other provider are not
\* referred to natively, and their message's note lists them (an attachment
\* without MIME type is listed with 'unknown')
OtherProvidersListed ==
  \A m \in 1..Len(atMessages) : \A k \in 1..Len(atMessages[m].attachments) :
    LET att == atMessages[m].attachments[k] IN
    (atMessages[m].role = "user" /\ att.provider \notin {"", atAdapter})
      => /\ RefOf(att) = "" \/ RefOf(att) \notin NativeRefs
         /\ NoteLine(att) \in NoteLines

\* C20: the two adapters emit a provider-native reference only for an
\* attachment whose declared provider is absent or the adapter's own; an
\* attachment of a user message declared for the other provider gets no
\* native reference but is listed with name, MIME type and public URL in the
\* attachment note.
C20_NativeOnlyForOwnProvider ==
  atPc = "done" => NativeOnlyForProvider /\ OtherProvidersListed

\* C20, amended: the same, where the note is promised only for a call with
\* the option includeAttachments on (the default).
C20_NativeOnlyNoteWhenIncluded ==
  atPc = "done" => /\ NativeOnlyForProvider
                   /\ atInclude => OtherProvidersListed
                   /\ ~atInclude => NativeRefs = {} /\ NoteLines = {}

\* C20 witness: buildOpenAIInput on a user message with an attachment
\* without provider and one declared for gemini: the first is referred to by
\* its file id, the second is not, and the note lists both.
C20_Witness ==
  /\ atPc = "done"
  /\ atAdapter = "openai"
  /\ atInclude
  /\ Len(atMessages) = 1
  /\ atMessages[1].role = "user"
  /\ atMessages[1].attachments =
       << Attachment("a.png", "", "image", "file-a", "uri-a", "image/png"),
          Attachment("c.png", "gemini", "image", "file-c", "uri-c", "image/png") >>
  /\ NativeRefs = {"file-a"}
  /\ Cardinality(NoteLines) = 2

(***************************************************************************)
(* The tool loop and a response without tool calls.                        *)
(***************************************************************************)
\* The last response received carries no tool call
LastResponseHasNoCalls == tlData.seq > 0 /\ tlData.calls = <<>>

\* C21: the tool loop stops at the first response without tool calls: after
\* it no tool is executed and the provider is not invoked again in that call,
\* the content and the parsed result returned are those of that response,
\* and when it is the first response the provider was invoked exactly once.
C21_StopsAtFirstWithoutCalls ==
  LastResponseHasNoCalls =>
    /\ tlPc \in {"loop", "returned", "thrown"}
    /\ tlInvocations = tlData.seq
    /\ ExecutedResponses = 1..(tlData.seq - 1)
    /\ Len(tlInput) = 1 + 2 * (tlData.seq - 1)
    /\ tlPc = "returned" =>
         /\ tlOutcome.value.content = tlData.text
         /\ tlOutcome.value.parsed = parseResponse(StringContent(tlData.text)).value
         /\ tlOutcome.value.usage = tlData.seq

\* C21 witness: the first response of the main generation call carried no
\* tool call and the call returned after that single invocation.
C21_Witness ==
  /\ tlPc = "returned"
  /\ LastResponseHasNoCalls
  /\ tlData.seq = 1
  /\ tlInvocations = 1
  /\ tlToolOutputs = <<>>

\* The loop also stops so in a later round: the third response was the
\* first without tool calls.
StopsInThirdRound ==
  /\ tlPc = "returned"
  /\ LastResponseHasNoCalls
  /\ tlData.seq = 3

(***************************************************************************)
(* One tool loop, call by call: callOpenAIWithTools with                   *)
(* executeOpenAIToolCalls, and callGeminiWithTools.                        *)
(***************************************************************************)
\* A function call of an OpenAI response.  `arguments` is a string of the
\* response: valid tells whether JSON.parse accepts it, prompt and url are
\* the fields of the object it yields ("" for an absent field)
OpenAICall(name, callId, id, valid, prompt, url) ==
  [name |-> name, call_id |-> callId, id |-> id,
   arguments |-> [valid |-> valid, prompt |-> prompt, url |-> url]]

\* A functionCall part of a Gemini response; args is an object already
GeminiCall(name, prompt) == [name |-> name, args |-> [prompt |-> prompt]]

\* The function calls of one response: none; a well-formed image call; a
\* call with broken arguments and a tool the program does not know; an image
\* call without prompt that has only `id`, and a metadata lookup; a lookup
\* with broken arguments before an image call
OpenAICallLists ==
  { <<>>,
    << OpenAICall("generate_image", "call_1", "fc_1", TRUE, "a cat", "") >>,
    << OpenAICall("generate_image", "call_2", "fc_2", FALSE, "", ""),
       OpenAICall("lookup", "call_3", "fc_3", TRUE, "", "") >>,
    << OpenAICall("generate_image", "", "fc_4", TRUE, "", ""),
       OpenAICall("fetch_url_metadata", "call_5", "fc_5", TRUE, "", "https://a.example") >>,
    << OpenAICall("fetch_url_metadata", "call_6", "", FALSE, "", ""),
       OpenAICall("generate_image", "call_7", "fc_7", TRUE, "a dog", "") >> }

GeminiCallLists ==
  { <<>>,
    << GeminiCall("generate_image", "a cat") >>,
    << GeminiCall("generate_image", ""), GeminiCall("generate_image", "a dog") >>,
    << GeminiCall("fetch_url_metadata", ""), GeminiCall("generate_image", "a cat") >>,
    << GeminiCall("lookup", "") >> }

RoundCallLists(p) == IF p = "openai" THEN OpenAICallLists ELSE GeminiCallLists

\* The image policies a flow passes on (llm.js:432-446)
RoundPolicies == {Policy("none", 0), Policy("assist", AssistMax), Policy("explicit", ExplicitMax)}

\* llm.js:766, 825  const callId = call.call_id || call.id
OpenAICallIdOnly(call) == call.call_id
OpenAICallId(call) == IF call.call_id # "" THEN call.call_id ELSE call.id

\* llm.js:770, 1176  the refusal test: if (!allowImageGeneration)
ImageRefusedNever(allow) == FALSE
ImageRefused(allow) == ~allow

\* The messages of the errors of one call
DisabledMessage == "Image generation disabled for this request."
PromptMessage == "generate_image requires a prompt"
JsonMessage == "Unexpected token in JSON"
GeneratorMessage == "image generation failed"
LookupMessage == "image cache failed"
UnknownToolMessage(name) == "Unknown tool: " \o name

\* What the body of the try block of one call comes to: a payload pushed, or
\* an error thrown (llm.js:766-821).  works tells whether the collaborator the
\* call invokes (image generator, metadata lookup with image cache) returns.
OpenAITry(call, allow, works) ==
  IF ~call.arguments.valid THEN Throws(ErrorOf(JsonMessage))
  ELSE IF call.name = "generate_image"
    THEN IF ImageRefused(allow) THEN Returns([error |-> DisabledMessage])
         ELSE IF call.arguments.prompt = "" THEN Throws(ErrorOf(PromptMessage))
         ELSE IF works THEN Returns([url |-> "/generated/image.png", filename |-> "image.png"])
         ELSE Throws(ErrorOf(GeneratorMessage))
  ELSE IF call.name = "fetch_url_metadata"
    THEN IF works THEN Returns([results |-> <<call.arguments.url>>])
                  ELSE Throws(ErrorOf(LookupMessage))
  ELSE Returns([error |-> UnknownToolMessage(call.name)])

\* llm.js:822-828  the catch block of one call: the error becomes the result
CaughtEscapes(e) == Throws(e)
CaughtAsResult(e) == Returns([error |-> e.message])

\* llm.js:764-829  one pass of the loop of executeOpenAIToolCalls
OpenAIToolResult(call, allow, works) ==
  LET tried == OpenAITry(call, allow, works)
      settled == IF tried.kind = "throw" THEN CaughtAsResult(tried.error) ELSE tried
  IN IF settled.kind = "throw" THEN settled
     ELSE Returns([type |-> "function_call_output", call_id |-> OpenAICallId(call),
                   output |-> settled.value])

\* llm.js:1174-1217  one pass of the inner loop of callGeminiWithTools
GeminiToolResult(call, allow, works) ==
  LET tried == IF call.name = "generate_image"
                 THEN IF ImageRefused(allow) THEN Returns([error |-> DisabledMessage])
                      ELSE IF call.args.prompt = "" THEN Throws(ErrorOf(PromptMessage))
                      ELSE IF works THEN Returns([url |-> "/generated/image.png",
                                                  filename |-> "image.png"])
                      ELSE Throws(ErrorOf(GeneratorMessage))
                 ELSE Returns([error |-> UnknownToolMessage(call.name)])
      settled == IF tried.kind = "throw" THEN CaughtAsResult(tried.error) ELSE tried
  IN IF settled.kind = "throw" THEN settled
     ELSE Returns([functionResponse |-> [name |-> call.name, response |-> settled.value]])

ToolResult(p, call, allow, works) ==
  IF p = "openai" THEN OpenAIToolResult(call, allow, works)
                  ELSE GeminiToolResult(call, allow, works)

\* llm.js:785, 1189  whether the pass invokes the image generator
InvokesGenerator(p, call, allow) ==
  /\ call.name = "generate_image"
  /\ ~ImageRefused(allow)
  /\ IF p = "openai" THEN call.arguments.valid /\ call.arguments.prompt # ""
                     ELSE call.args.prompt # ""

\* llm.js:761-832, 1173-1218  the passes over the calls of one response, in
\* order: the results pushed so far, and the error that ended the loop early
\* if one left its pass
RECURSIVE ExecuteCalls(_, _, _, _, _, _)
ExecuteCalls(p, calls, allow, works, i, outputs) ==
  IF i > Len(calls) THEN Returns(outputs)
  ELSE LET r == ToolResult(p, calls[i], allow, works[i]) IN
       IF r.kind = "throw" THEN r
       ELSE ExecuteCalls(p, calls, allow, works, i + 1, Append(outputs, r.value))

\* The item of data.output for one call (llm.js:756-759), the model turn of
\* a Gemini response (llm.js:1220)
FunctionCallItem(seq, call) == [type |-> "function_call", of |-> seq, call |-> call]
OpenAIOutput(data) == [i \in 1..Len(data.calls) |-> FunctionCallItem(data.seq, data.calls[i])]
GeminiContent(data) ==
  [role |-> "model", of |-> data.seq,
   parts |-> [i \in 1..Len(data.calls) |-> [functionCall |-> data.calls[i]]]]

\* llm.js:943, 1220  the input of the next invocation
NextInput(p, input, data, outputs) ==
  IF p = "openai" THEN input \o OpenAIOutput(data) \o outputs
  ELSE input \o <<GeminiContent(data), [role |-> "user", parts |-> outputs]>>

\* llm.js:912-932, 1146-1165  the call: the input is the messages and the
\* context message, and the provider is invoked with it
RoundsCall ==
  /\ rdPc = "idle"
  /\ \E p \in PROVIDERS, policy \in RoundPolicies :
       /\ rdProvider' = p
       /\ rdPolicy' = policy
  /\ rdInput' = <<[kind |-> "messages"], [kind |-> "context"]>>
  /\ rdInputs' = <<rdInput'>>
  /\ rdPc' = "invoke"
  /\ UNCHANGED <<rdData, rdOutputs, rdAttempt, rdGenerations, rdOutcome>>
  /\ RoundOnly

\* llm.js:925-932 and 945-952, 1160-1165 and 1222-1227  the provider answers
\* the invocation; after a round, attempt++ follows
RoundsRespond ==
  /\ rdPc = "invoke"
  /\ \E calls \in RoundCallLists(rdProvider) :
       rdData' = [seq |-> rdData.seq + 1, calls |-> calls]
  /\ rdAttempt' = IF rdData.seq = 0 THEN 0 ELSE rdAttempt + 1
  /\ rdPc' = "loop"
  /\ UNCHANGED <<rdProvider, rdPolicy, rdInput, rdInputs, rdOutputs, rdGenerations, rdOutcome>>
  /\ RoundOnly

\* The invocation throws: nothing in the call catches it
RoundsThrow ==
  /\ rdPc = "invoke"
  /\ \E e \in TransportErrors : rdOutcome' = Throws(e)
  /\ rdPc' = "thrown"
  /\ UNCHANGED <<rdProvider, rdPolicy, rdInput, rdInputs, rdData, rdOutputs, rdAttempt,
                 rdGenerations>>
  /\ RoundOnly

\* llm.js:938-952, 1169-1227  one round: the calls of the response are
\* executed one after the other, the input is extended by the response and
\* the results, and the provider is invoked with it
RoundsExecute ==
  /\ rdPc = "loop"
  /\ ToolLoopContinues(rdAttempt)
  /\ HasToolCalls(rdData.calls)
  /\ \E works \in [1..Len(rdData.calls) -> BOOLEAN] :
       LET allow == AllowsImages(rdPolicy)
           r == ExecuteCalls(rdProvider, rdData.calls, allow, works, 1, <<>>)
       IN IF r.kind = "throw"
            THEN /\ rdOutcome' = r
                 /\ rdPc' = "thrown"
                 /\ UNCHANGED <<rdOutputs, rdInput, rdInputs, rdGenerations>>
            ELSE /\ rdOutputs' = r.value
                 /\ rdInput' = NextInput(rdProvider, rdInput, rdData, r.value)
                 /\ rdInputs' = Append(rdInputs, rdInput')
                 /\ rdGenerations' = rdGenerations +
                      Cardinality({i \in 1..Len(rdData.calls) :
                                     InvokesGenerator(rdProvider, rdData.calls[i], allow)})
                 /\ rdPc' = "invoke"
                 /\ UNCHANGED rdOutcome
  /\ UNCHANGED <<rdProvider, rdPolicy, rdData, rdAttempt>>
  /\ RoundOnly

\* llm.js:940 and 957-965, 1171 and 1230-1237  the loop is over and the call
\* returns what the last response gives
RoundsReturn ==
  /\ rdPc = "loop"
  /\ ~(ToolLoopContinues(rdAttempt) /\ HasToolCalls(rdData.calls))
  /\ rdOutcome' = Returns([usage |-> rdData.seq])
  /\ rdPc' = "returned"
  /\ UNCHANGED <<rdProvider, rdPolicy, rdInput, rdInputs, rdData, rdOutputs, rdAttempt,
                 rdGenerations>>
  /\ RoundOnly

RoundsNext == RoundsCall \/ RoundsRespond \/ RoundsThrow \/ RoundsExecute \/ RoundsReturn

SpecRounds == InitAll /\ [][RoundsNext]_vars

\* A round has just been executed for the response rdData and the provider
\* is being invoked with the extended input
RoundExecuted == rdPc = "invoke" /\ rdData.seq > 0

IsPrefix(a, b) == Len(a) <= Len(b) /\ SubSeq(b, 1, Len(a)) = a

\* The identifier a result must carry for its call
KeyOfCall(p, call) ==
  IF p = "openai" THEN (IF call.call_id # "" THEN call.call_id ELSE call.id) ELSE call.name
KeyOfResult(p, out) ==
  IF p = "openai" THEN out.call_id ELSE out.functionResponse.name
PayloadOf(p, out) ==
  IF p = "openai" THEN out.output ELSE out.functionResponse.response

\* C22: in every round there is exactly one tool result per tool call of the
\* response, in the order of the calls and keyed to its call (OpenAI: call_id
\* or id, Gemini: name), whatever the fate of the call; the input of the next
\* invocation is the previous input, then the model's tool-call turn, then
\* these results, so that every earlier input is a prefix of every later one.
C22_OneKeyedResultPerCall ==
  /\ RoundExecuted =>
       /\ Len(rdOutputs) = Len(rdData.calls)
       /\ \A i \in 1..Len(rdData.calls) :
            KeyOfResult(rdProvider, rdOutputs[i]) = KeyOfCall(rdProvider, rdData.calls[i])
       /\ Len(rdInputs) = rdData.seq + 1
       /\ rdInput = rdInputs[Len(rdInputs)]
       /\ rdInput = rdInputs[Len(rdInputs) - 1] \o
            (IF rdProvider = "openai"
               THEN [i \in 1..Len(rdData.calls) |->
                       [type |-> "function_call", of |-> rdData.seq, call |-> rdData.calls[i]]]
                    \o rdOutputs
               ELSE << [role |-> "model", of |-> rdData.seq,
                        parts |-> [i \in 1..Len(rdData.calls) |->
                                     [functionCall |-> rdData.calls[i]]]],
                       [role |-> "user", parts |-> rdOutputs] >>)
  /\ \A i, j \in 1..Len(rdInputs) : i <= j => IsPrefix(rdInputs[i], rdInputs[j])

\* C22 witness: in the second round of an OpenAI call the response carried an
\* image call that has only `id` and no prompt, and a metadata lookup; the two
\* results carry fc_4 and call_5, and the provider is invoked a third time.
C22_Witness ==
  /\ RoundExecuted
  /\ rdProvider = "openai"
  /\ rdData.seq = 2
  /\ Len(rdData.calls) = 2
  /\ rdData.calls[1].call_id = ""
  /\ rdOutputs[1].call_id = "fc_4"
  /\ rdOutputs[2].call_id = "call_5"
  /\ Len(rdInputs) = 3

\* The tool names each loop handles (llm.js:769, 791 and 1175)
HandledTools(p) ==
  IF p = "openai" THEN {"generate_image", "fetch_url_metadata"} ELSE {"generate_image"}

\* What the failure of one call must leave as its result: the messages an
\* {error} payload may carry for the call
FailureMessages(p, call, allow) ==
  IF p = "openai" /\ ~call.arguments.valid THEN {JsonMessage}
  ELSE IF call.name \notin HandledTools(p) THEN {UnknownToolMessage(call.name)}
  ELSE IF call.name = "generate_image" /\ allow /\
          (IF p = "openai" THEN call.arguments.prompt ELSE call.args.prompt) = ""
    THEN {PromptMessage}
  ELSE {}

\* The call fails whatever its collaborators do
MustFail(p, call, allow) == FailureMessages(p, call, allow) # {}

\* C23: a failure while executing one tool call (arguments that are not valid
\* JSON, generate_image without prompt, an image generation or a metadata
\* lookup that throws, an unknown tool name) becomes an {error} result of that
\* call and never aborts the loop: the other calls of the round are executed
\* and the provider is invoked again with all results; the call as a whole
\* throws only what a provider invocation threw.
C23_CallFailuresStayResults ==
  /\ rdPc = "thrown" => rdOutcome.kind = "throw" /\ rdOutcome.error \in TransportErrors
  /\ RoundExecuted =>
       /\ Len(rdOutputs) = Len(rdData.calls)
       /\ rdInput = NextInput(rdProvider, rdInputs[Len(rdInputs) - 1], rdData, rdOutputs)
       /\ \A i \in 1..Len(rdData.calls) :
            LET call == rdData.calls[i]
                payload == PayloadOf(rdProvider, rdOutputs[i])
                allow == rdPolicy.mode # "none"
            IN /\ MustFail(rdProvider, call, allow) =>
                    /\ DOMAIN payload = {"error"}
                    /\ payload.error \in FailureMessages(rdProvider, call, allow)
               /\ "error" \in DOMAIN payload =>
                    payload.error \in FailureMessages(rdProvider, call, allow)
                                        \cup {GeneratorMessage, LookupMessage, DisabledMessage}
               /\ "error" \notin DOMAIN payload =>
                    \/ call.name = "generate_image" /\ "url" \in DOMAIN payload
                    \/ call.name = "fetch_url_metadata" /\ "results" \in DOMAIN payload

\* C23 witness: an OpenAI round whose first call has arguments that are not
\* valid JSON and whose second image call met a generator that threw: both
\* results are {error}, and the provider is invoked with them.
C23_Witness ==
  /\ RoundExecuted
  /\ rdProvider = "openai"
  /\ rdPolicy.mode = "assist"
  /\ Len(rdData.calls) = 2
  /\ ~rdData.calls[1].arguments.valid
  /\ rdOutputs[1].output = [error |-> JsonMessage]
  /\ rdOutputs[2].output = [error |-> GeneratorMessage]
  /\ rdInput[Len(rdInput)] = rdOutputs[2]

\* The Gemini round with an image call without prompt before a good one
GeminiFailureWitness ==
  /\ RoundExecuted
  /\ rdProvider = "gemini"
  /\ rdPolicy.mode = "explicit"
  /\ Len(rdData.calls) = 2
  /\ rdOutputs[1].functionResponse.response = [error |-> PromptMessage]
  /\ "url" \in DOMAIN rdOutputs[2].functionResponse.response

\* The generate_image calls of the response of the round
ImageCallsOfRound == {i \in 1..Len(rdData.calls) : rdData.calls[i].name = "generate_image"}

\* C24: with the image policy's mode none, every generate_image call of the
\* model is answered with a result whose error field is 'Image generation
\* disabled for this request.', nothing is thrown, the other calls of the
\* round are executed normally and the loop goes on to invoke the provider.
C24_ImageCallsRefused ==
  rdPolicy.mode = "none" =>
    /\ rdPc = "thrown" => rdOutcome.error \in TransportErrors
    /\ rdGenerations = 0
    /\ RoundExecuted =>
         /\ Len(rdOutputs) = Len(rdData.calls)
         /\ \A i \in ImageCallsOfRound :
              PayloadOf(rdProvider, rdOutputs[i]) = [error |-> DisabledMessage]
         /\ \A i \in (1..Len(rdData.calls)) \ ImageCallsOfRound :
              \E works \in BOOLEAN :
                rdOutputs[i] = ToolResult(rdProvider, rdData.calls[i], TRUE, works).value

\* C24 failure: with mode none, the OpenAI response carried a generate_image
\* call whose arguments are not valid JSON; its result carries the error of
\* JSON.parse.
C24_Failure ==
  /\ RoundExecuted
  /\ rdPolicy.mode = "none"
  /\ rdProvider = "openai"
  /\ \E i \in ImageCallsOfRound :
       /\ ~rdData.calls[i].arguments.valid
       /\ rdOutputs[i].output = [error |-> JsonMessage]

\* The arguments of the call reach the test of the tool name
ArgumentsAccepted(p, call) == p = "gemini" \/ call.arguments.valid

\* C24, amended: with mode none every generate_image call is answered with an
\* {error} result and the image generator is never invoked; the error is
\* 'Image generation disabled for this request.' unless the OpenAI call's
\* arguments are not valid JSON, where it is the error of JSON.parse; nothing
\* is thrown, the other calls are executed normally and the provider is
\* invoked again.
C24_ImageCallsGetError ==
  rdPolicy.mode = "none" =>
    /\ rdPc = "thrown" => rdOutcome.error \in TransportErrors
    /\ rdGenerations = 0
    /\ RoundExecuted =>
         /\ Len(rdOutputs) = Len(rdData.calls)
         /\ \A i \in ImageCallsOfRound :
              PayloadOf(rdProvider, rdOutputs[i]) =
                IF ArgumentsAccepted(rdProvider, rdData.calls[i])
                  THEN [error |-> DisabledMessage] ELSE [error |-> JsonMessage]
         /\ \A i \in (1..Len(rdData.calls)) \ ImageCallsOfRound :
              \E works \in BOOLEAN :
                rdOutputs[i] = ToolResult(rdProvider, rdData.calls[i], TRUE, works).value

\* C24 witness: with mode none a Gemini response carried a lookup of a tool
\* the loop does not handle and a well-formed image call; the image call was
\* refused, the other call got its usual result, no image was generated and
\* the provider is invoked again.
C24_Witness ==
  /\ RoundExecuted
  /\ rdPolicy.mode = "none"
  /\ rdProvider = "gemini"
  /\ Len(rdData.calls) = 2
  /\ rdData.calls[2] = GeminiCall("generate_image", "a cat")
  /\ rdOutputs[2].functionResponse.response = [error |-> DisabledMessage]
  /\ rdOutputs[1].functionResponse.response = [error |-> UnknownToolMessage("fetch_url_metadata")]
  /\ rdGenerations = 0

(***************************************************************************)
(* generateWithRepair: the attempt that succeeds, and the working list.    *)
(***************************************************************************)
\* The outcome of a pipeline call is a result with a sandbox that has code
GoodAttempt(call) ==
  call.outcome.kind = "return" /\ SomeSandboxWithCode(call.outcome.value.parsed)

\* C25: generateWithRepair returns the result of the first attempt whose
\* parsed list contains a sandbox with code, and calls the pipeline no more:
\* when attempt k is the first such attempt, the pipeline was called exactly
\* k times and the value returned is the k-th result unchanged.
C25_ReturnsFirstGoodAttempt ==
  /\ \A k \in 1..Len(gwCalls) :
       GoodAttempt(gwCalls[k]) =>
         /\ k = Len(gwCalls)
         /\ k <= gwMaxRetries
         /\ gwPc = "returned"
         /\ gwOutcome = gwCalls[k].outcome
  /\ gwPc = "returned" =>
       /\ Len(gwCalls) >= 1
       /\ GoodAttempt(gwCalls[Len(gwCalls)])
       /\ \A j \in 1..(Len(gwCalls) - 1) : ~GoodAttempt(gwCalls[j])

\* C25 witness: the first attempt gave plain words, the second a sandbox
\* object without code, the third a sandbox with code, which was returned.
C25_Witness ==
  /\ gwPc = "returned"
  /\ Len(gwCalls) = 3
  /\ gwCalls[1].outcome.value.content = <<"TXT">>
  /\ gwCalls[2].outcome.value.content = <<"LB", "TS", "RB">>
  /\ gwOutcome = gwCalls[3].outcome

\* The corrective pairs of the attempts before attempt i (1-based)
RECURSIVE PairsBefore(_, _)
PairsBefore(calls, i) ==
  IF i <= 1 THEN <<>>
  ELSE PairsBefore(calls, i - 1) \o
         << [role |-> "assistant", content |-> calls[i - 1].outcome.value.content],
            [role |-> "user", content |-> <<"corrective">>] >>

\* The working list at the start of attempt i (1-based)
WorkingListAt(i) ==
  gwMessages \o (IF gwError = Null THEN <<>>
                 ELSE <<[role |-> "user", content |-> <<"fix">> \o gwError]>>)
             \o PairsBefore(gwCalls, i)

\* C26: at the start of every attempt of generateWithRepair the working
\* message list is the caller's messages, then the error-fix message if an
\* error was given, then for every earlier (failed) attempt, in order, the
\* assistant message with its raw content and the corrective user message;
\* nothing is appended after the last failed attempt.
C26_WorkingListShape ==
  gwPc \in {"loop", "returned", "thrown"} /\ gwMessages # NotAnArray =>
    /\ \A i \in 1..Len(gwCalls) : gwCalls[i].messages = WorkingListAt(i)
    /\ (gwPc = "loop" /\ gwAttempt < gwMaxRetries) =>
          currentMessages = WorkingListAt(gwAttempt + 1)
    /\ (gwPc # "loop" \/ gwAttempt >= gwMaxRetries) =>
          currentMessages = WorkingListAt(Len(gwCalls))

\* C26 witness: with an error given, three attempts failed out of three; the
\* third was called with the messages, the error-fix message and two pairs,
\* and the list is still that after the fatal error.
C26_Witness ==
  /\ gwPc = "thrown"
  /\ gwOutcome = Throws(FatalRepairError)
  /\ gwError = <<"boom">>
  /\ gwMaxRetries = 3
  /\ Len(gwCalls) = 3
  /\ Len(gwMessages) = 1
  /\ Len(gwCalls[3].messages) = 6
  /\ currentMessages = gwCalls[3].messages

InvokeMaxRetries == 2
InvokeTimeoutMs(p) == IF p = "openai" THEN 180000 ELSE 90000

\* llm.js:731, 1000  the error of a response that is not ok: it carries the
\* status and the raw body
ApiError(p, response) ==
  [name |-> "Error", message |-> <<p, "API error", response.status, "raw body">>]

\* llm.js:728, 997  if (!response.ok)
ResponseRejected(response) == ~response.ok

\* llm.js:704-726, 969-995  the invocation starts: without API key it throws
\* at once, else it calls fetchWithRetry
InvokeCall ==
  /\ ivPc = "idle"
  /\ frPc = "idle"
  /\ \E p \in PROVIDERS, key \in BOOLEAN :
       /\ ivProvider' = p
       /\ ivKey' = key
       /\ IF key
            THEN /\ ivPc' = "fetching"
                 /\ ivOutcome' = NoOutcome
                 /\ maxRetries' = InvokeMaxRetries
                 /\ timeoutMs' = InvokeTimeoutMs(p)
                 /\ frPc' = "top"
                 /\ frAttempt' = 0
                 /\ UNCHANGED <<lastError, frCalls, frDelays, frOutcome>>
            ELSE /\ ivPc' = "thrown"
                 /\ ivOutcome' = Throws(MissingKeyError(p))
                 /\ UNCHANGED httpVars
  /\ InvokeOnly

\* llm.js:719-734, 989-1003  fetchWithRetry is over: what it threw leaves the
\* invocation, a response that is not ok becomes an error, any other
\* response is returned
InvokeSettles ==
  /\ ivPc = "fetching"
  /\ frPc \in {"returned", "thrown"}
  /\ IF frOutcome.kind = "throw"
       THEN ivOutcome' = frOutcome /\ ivPc' = "thrown"
       ELSE IF ResponseRejected(frOutcome.response)
         THEN ivOutcome' = Throws(ApiError(ivProvider, frOutcome.response)) /\ ivPc' = "thrown"
         ELSE ivOutcome' = Returns(frOutcome.response) /\ ivPc' = "returned"
  /\ UNCHANGED <<ivProvider, ivKey>>
  /\ UNCHANGED httpVars
  /\ InvokeOnly

\* The HTTP client, called as before by any of its callers or by a provider
\* invocation
InvokeNext == HttpNext \/ InvokeCall \/ InvokeSettles

SpecInvoke == InitAll /\ [][InvokeNext]_vars

\* The invocation threw the error of a response that was not ok
ThrewApiError ==
  /\ ivPc = "thrown"
  /\ ivOutcome.error.name = "Error"
  /\ Len(ivOutcome.error.message) = 4
  /\ ivOutcome.error.message[2] = "API error"

\* C28: a non-2xx response of a provider is retried at the HTTP layer under
\* the retry policy before its error, with status and raw body, reaches the
\* calling component: when the invocation throws that error, the HTTP client
\* has made all its maxRetries + 1 attempts, with the backoff delays between.
C28_Non2xxRetried ==
  ThrewApiError =>
    /\ Len(frCalls) = maxRetries + 1
    /\ frDelays = [k \in 1..maxRetries |-> BackoffUnitMs * k]

\* C28 failure: the provider answered the first attempt with status 500; the
\* invocation threw the API error after that single attempt, without delay.
C28_Failure ==
  /\ ThrewApiError
  /\ ivOutcome.error.message[3] = 500
  /\ maxRetries = 2
  /\ frCalls = <<0>>
  /\ frDelays = <<>>

\* What does hold: the error carries the status, and the response that
\* caused it was returned by the HTTP client as a result, not as a failure
Non2xxNotAFailure ==
  ThrewApiError =>
    /\ frPc = "returned"
    /\ ~frOutcome.response.ok
    /\ ivOutcome.error.message[3] = frOutcome.response.status
    /\ frOutcome.response.attempt = Len(frCalls) - 1

(***************************************************************************)
(* The grounded planner inside one callLLM turn.                           *)
(***************************************************************************)
\* The tool sets the planner is to go through, in order
DegradationOrder ==
  IF provider = "openai" THEN << {"web_search"}, {} >>
  ELSE << {"google_search", "url_context"}, {"google_search"}, {} >>

\* The planner's last invocation threw and the error left callLLM
PlannerThrew == tlPc = "thrown" /\ plannerCalls # <<>> /\ tlInput = <<>>

\* The planner's invocations that answered
PlannerSuccesses == Len(plannerCalls) - plannerFailures

\* C29: the planner degrades in a fixed order: with search, then with the
\* minimal search tool set, then without tools (Gemini: google_search and
\* url_context, then google_search, then none, at most 3 invocations; OpenAI:
\* web_search, then none); every later invocation follows a failed one and
\* has a strictly smaller tool set, a success ends the chain, and an error
\* reaches the caller only when the final invocation without tools failed.
C29_PlannerDegradesInOrder ==
  /\ Len(plannerCalls) <= Len(DegradationOrder)
  /\ plannerCalls = SubSeq(DegradationOrder, 1, Len(plannerCalls))
  /\ \A i, j \in 1..Len(plannerCalls) :
       i < j => plannerCalls[j] \subseteq plannerCalls[i] /\ plannerCalls[j] # plannerCalls[i]
  /\ PlannerSuccesses \in {0, 1}
  /\ tlPc = "flow" => PlannerSuccesses = 0
  /\ (plannerCalls # <<>> /\ tlPc # "flow" /\ ~PlannerThrew) => PlannerSuccesses = 1
  /\ PlannerThrew =>
       /\ PlannerSuccesses = 0
       /\ Len(plannerCalls) = Len(DegradationOrder)
       /\ plannerCalls[Len(plannerCalls)] = {}
       /\ tlOutcome.kind = "throw"
       /\ tlOutcome.error \in ProviderErrors

\* C29 witness: the Gemini planner failed with both search tool sets, was
\* answered without tools, and the turn went on to its result.
C29_Witness ==
  /\ provider = "gemini"
  /\ tlPc = "returned"
  /\ plannerCalls = << {"google_search", "url_context"}, {"google_search"}, {} >>
  /\ plannerFailures = 2

\* The chain ended by an error: the OpenAI planner failed with and without
\* web_search
PlannerChainFailed ==
  /\ provider = "openai"
  /\ PlannerThrew
  /\ Len(plannerCalls) = 2
  /\ apiKeyConfigured

\* C30: the planner is used only when grounding is enabled: in one callLLM
\* turn it is invoked if and only if web search is enabled for the turn, at
\* most once, and it has completed, with source enrichment and plan-image
\* generation, before the first provider invocation of the main generation
\* call; generateWithRepair, which always disables web search, never invokes
\* it.
C30_PlannerOnlyWhenGrounded ==
  /\ plannerCalls # <<>> => webSearchEnabled
  /\ tlPc \notin {"idle", "flow"} => (webSearchEnabled <=> plannerCalls # <<>>)
  /\ PlannerSuccesses <= 1
  /\ tlPc \in {"flow", "planned"} => tlInvocations = 0 /\ tlInput = <<>> /\ imageCalls = {}
  /\ (webSearchEnabled /\ (tlInvocations > 0 \/ tlPc = "invoke")) =>
        PlannerSuccesses = 1 /\ tlInput # <<>>
  /\ "plan" \in imageCalls => webSearchEnabled /\ PlannerSuccesses = 1
  /\ tlCaller = "repair" => ~webSearchEnabled /\ plannerCalls = <<>>

\* C30 witness: a route's turn with web search enabled: the planner was
\* answered at its first invocation, the plan's images were generated, and
\* the main generation call has then invoked the provider twice.
C30_Witness ==
  /\ tlCaller = "route"
  /\ webSearchEnabled
  /\ Len(plannerCalls) = 1
  /\ plannerFailures = 0
  /\ "plan" \in imageCalls
  /\ tlInvocations = 2
  /\ tlPc = "returned"

\* A turn of generateWithRepair went through its tool loop without planner
RepairTurnWithoutPlanner ==
  /\ tlCaller = "repair"
  /\ tlPc = "returned"
  /\ plannerCalls = <<>>
  /\ tlInvocations = 2


(***************************************************************************)
(* enrichSources called on its own, with source lists of any shape.        *)
(***************************************************************************)
\* The urls of a long source list
PageUrl(d) == <<"a", ":", "/", "a", "/", d>>

\* A source as the extraction makes it (llm.js:563-567, 599-603)
ExtractedSource(title, url) == [title |-> title, url |-> url, image |-> Null]

\* Seven sources with seven urls, more than the default of max
SevenSources ==
  << ExtractedSource(<<"a">>, PageUrl("1")), ExtractedSource(<<>>, PageUrl("2")),
     ExtractedSource(<<"K", "!">>, PageUrl("3")), ExtractedSource(<<"a">>, PageUrl("4")),
     ExtractedSource(<<>>, PageUrl("5")), ExtractedSource(<<"a", " ", "b">>, PageUrl("6")),
     ExtractedSource(<<"a">>, PageUrl("7")) >>

\* A list with a url that occurs twice, a source without url, and sources
\* that bring a description and an image of their own
MixedSources ==
  << ExtractedSource(<<"a">>, U2),
     ExtractedSource(<<"K", "!">>, <<>>),
     [title |-> <<>>, url |-> U1, description |-> <<"K">>, image |-> U1 \o <<"/", "K">>],
     ExtractedSource(<<"K", "!">>, U2),
     [title |-> <<"a", " ", "b">>, url |-> PageUrl("1"), description |-> <<>>, image |-> Null] >>

\* The lists enrichSources is called with
EnrichInputs == {<<>>, SevenSources, MixedSources, SubSeq(MixedSources, 2, 3)}

\* llm.js:610-617  enrichSources is called: the sources are deduplicated and
\* cut to max, and one metadata fetch per source is started
EnrichSourcesCall ==
  /\ esPc = "idle"
  /\ plPc = "idle"
  /\ \E sources \in EnrichInputs : esSources' = sources
  /\ esMax' = EnrichDefaultMax
  /\ esOutOfOrder' = FALSE
  /\ uniqueSources' = Slice(dedupeSources(esSources'), esMax')
  /\ metadataList' = [i \in 1..Len(uniqueSources') |-> Pending]
  /\ enriched' = <<>>
  /\ esPc' = "fetching"
  /\ UNCHANGED planVars
  /\ PlanOnly

\* llm.js:640  enrichSources returns the list `enriched`
EnrichSourcesReturn ==
  /\ esPc = "fetching"
  /\ plPc = "idle"
  /\ \A i \in 1..Len(metadataList) : metadataList[i] # Pending
  /\ Len(enriched) = Len(uniqueSources)
  /\ esPc' = "returned"
  /\ UNCHANGED <<esSources, esMax, esOutOfOrder, uniqueSources, metadataList, enriched>>
  /\ UNCHANGED planVars
  /\ PlanOnly

EnrichNext == EnrichSourcesCall \/ MetadataArrives \/ EnrichMerge \/ EnrichSourcesReturn

SpecEnrich == InitAll /\ [][EnrichNext]_vars

\* The distinct non-empty urls of a list, in the order of their first
\* occurrence
RECURSIVE FirstUrls(_, _)
FirstUrls(sources, seen) ==
  IF sources = <<>> THEN <<>>
  ELSE LET u == Head(sources).url IN
       IF Falsy(u) \/ u \in seen THEN FirstUrls(Tail(sources), seen)
       ELSE <<u>> \o FirstUrls(Tail(sources), seen \cup {u})

\* The source that stands for a url after deduplication: the entries of the
\* url merged in input order
RECURSIVE MergedFor(_, _)
MergedFor(sources, url) ==
  IF sources = <<>> THEN <<>>
  ELSE IF sources[Len(sources)].url = url
    THEN Spread(MergedFor(SubSeq(sources, 1, Len(sources) - 1), url), sources[Len(sources)])
    ELSE MergedFor(SubSeq(sources, 1, Len(sources) - 1), url)

\* C31: enrichSources returns exactly min(max, number of distinct non-empty
\* urls of the input) sources, in the order in which the urls first occur in
\* the input, whatever order the metadata fetches completed in; every
\* returned source is its input source merged with the outcome of its own
\* fetch, so a failed fetch removes no source and touches no other source.
C31_EnrichCountAndOrder ==
  esPc = "returned" =>
    LET expected == FirstUrls(esSources, {})
        n == Min({esMax, Len(expected)})
    IN /\ Len(enriched) = n
       /\ \A i \in 1..n :
            /\ enriched[i].url = expected[i]
            /\ \E md \in {MetadataFailed(expected[i]), MetadataFound(expected[i])},
                  cacheOk \in BOOLEAN :
                 enriched[i] = EnrichOne(MergedFor(esSources, expected[i]), md, cacheOk)

\* C31 witness: seven urls came in and six sources are returned; the fetches
\* completed out of input order, the fetch of the second source failed and
\* the fetches of its neighbours succeeded.
C31_Witness ==
  /\ esPc = "returned"
  /\ esSources = SevenSources
  /\ Len(enriched) = 6
  /\ esOutOfOrder
  /\ ~metadataList[2].success
  /\ metadataList[1].success
  /\ metadataList[3].success

\* Sources were dropped for an empty and for a repeated url, and the
\* fetches completed out of order
DedupedOutOfOrder ==
  /\ esPc = "returned"
  /\ esSources = MixedSources
  /\ Len(enriched) = 3
  /\ esOutOfOrder


\* The input source a returned source was made from
InputSourceOf(e) == MergedFor(esSources, e.url)

SourceValueKeptAsCoded ==
  esPc = "returned" =>
    \A i \in 1..Len(enriched) :
      LET src == InputSourceOf(enriched[i]) IN
      /\ ~Falsy(src.title) => enriched[i].title = src.title
      /\ ~metadataList[i].success =>
           /\ enriched[i].description = Or(Get(src, "description"), <<>>)
           /\ enriched[i].image = Or(Get(src, "image"), Null)


(***************************************************************************)
(* The order in which attachImagesToPlan hands out the sources.            *)
(***************************************************************************)
\* The item of a pick has no source_url
WithoutSourceUrl(e) == Falsy(Get(e.item, "source_url"))

\* The sources a pick may still claim, with the urls used before it
UnusedAt(usedUrls) ==
  {k \in 1..Len(enrichedSources) :
     ~Falsy(enrichedSources[k].url) /\ enrichedSources[k].url \notin usedUrls}

\* The sources among `among` that match the item best, with a score above 0
BestMatches(item, among) ==
  {k \in among :
     /\ Greater(ItemScore(item, enrichedSources[k]), Score(0, 1))
     /\ \A j \in among : ~Greater(ItemScore(item, enrichedSources[j]),
                                  ItemScore(item, enrichedSources[k]))}

\* The best match of an item among all sources (0 when no title matches)
BestMatchOf(item) == FirstIndex(BestMatches(item, UnusedAt({})))

\* Two picks for items without source_url whose best match is the same
\* source with the same score, the source being free at the earlier pick
SameBestMatch(a, b) ==
  /\ WithoutSourceUrl(a) /\ WithoutSourceUrl(b)
  /\ BestMatchOf(a.item) # 0
  /\ BestMatchOf(a.item) = BestMatchOf(b.item)
  /\ ItemScore(a.item, enrichedSources[BestMatchOf(a.item)])
       = ItemScore(b.item, enrichedSources[BestMatchOf(b.item)])
  /\ BestMatchOf(a.item) \in UnusedAt(a.usedUrls)

\* C33: the sources are handed out first-claimed-wins in plan order: of two
\* items without source_url whose best match is the same source with tied
\* scores, the earlier one gets that source and the later one gets another,
\* not yet used source if there is one; and an item without source_url gets,
\* of the unused sources with the best score, the earliest in the list.
C33_FirstClaimedWins ==
  plPc = "planned" =>
    /\ \A n \in 1..Len(pickLog) :
         LET e == pickLog[n]
             best == BestMatches(e.item, UnusedAt(e.usedUrls))
         IN (WithoutSourceUrl(e) /\ best # {}) => e.picked = Min(best)
    /\ \A n, m \in 1..Len(pickLog) :
         (n < m /\ SameBestMatch(pickLog[n], pickLog[m])) =>
            /\ pickLog[n].picked = BestMatchOf(pickLog[n].item)
            /\ UnusedAt(pickLog[m].usedUrls) # {} =>
                 /\ pickLog[m].picked # pickLog[n].picked
                 /\ pickLog[m].picked \in UnusedAt(pickLog[m].usedUrls)

\* C33 witness: two sources with the same title and two items with that
\* title and no source_url: both items match both sources with the top
\* score; the first item got the first source and the second item the second.
C33_Witness ==
  /\ plPc = "planned"
  /\ Len(enrichedSources) = 2
  /\ enrichedSources[1].title = enrichedSources[2].title
  /\ Len(pickLog) = 2
  /\ SameBestMatch(pickLog[1], pickLog[2])
  /\ BestMatches(pickLog[1].item, UnusedAt({})) = {1, 2}
  /\ pickLog[1].picked = 1
  /\ pickLog[2].picked = 2
  /\ planWithImages[1].source_url = enrichedSources[1].url
  /\ planWithImages[2].source_url = enrichedSources[2].url


(***************************************************************************)
(* ensurePlanImages: failed generations and images of high value.          *)
(***************************************************************************)
\* The generator was invoked for item k and gave no image
GenerationFailed(k) == epTried[k] \in {GeneratorThrows, Null}

\* The generator was invoked for item k and gave an image
GenerationSucceeded(k) == epTried[k] \notin {GeneratorThrows, Null, NotTried}

\* The images generated for the items before item k
GeneratedBefore(k) == Cardinality({j \in 1..(k - 1) : GenerationSucceeded(j)})

\* C34: when the generation fails for an item (the generator throws or
\* gives no url), ensurePlanImages does not throw and keeps that item as it
\* was; every later item that needs an image is still passed to the
\* generator while the cap is not reached, and every item whose generation
\* succeeds has the generated url as its generated_image.
C34_FailureDoesNotAbort ==
  /\ epPc # "thrown"
  /\ (epPc \in {"loop", "done"} /\ epItems # NotAnArray) =>
       /\ Len(epTried) = Len(updatedItems)
       /\ \A k \in 1..Len(updatedItems) :
            /\ GenerationFailed(k) => updatedItems[k] = epItems[k]
            /\ (NeedsImage(epItems[k], epForce) /\ GeneratedBefore(k) < epMax) =>
                 epTried[k] # NotTried
            /\ GenerationSucceeded(k) =>
                 /\ "generated_image" \in DOMAIN updatedItems[k]
                 /\ updatedItems[k].generated_image = epTried[k]
  /\ (epPc = "done" /\ epItems # NotAnArray) =>
       epResult = updatedItems /\ Len(epResult) = Len(epItems)

\* C34 witness: the generator threw for the first item, which is returned
\* as it was, and generated an image for the second.
C34_Witness ==
  /\ epPc = "done"
  /\ Len(epItems) = 2
  /\ epTried[1] = GeneratorThrows
  /\ epResult[1] = epItems[1]
  /\ GenerationSucceeded(2)
  /\ epResult[2].generated_image = epTried[2]

\* The generator gave no url for the first item and generated an image for
\* the second
NoUrlThenImage ==
  /\ epPc = "done"
  /\ Len(epItems) = 2
  /\ epTried[1] = Null
  /\ epResult[1] = epItems[1]
  /\ GenerationSucceeded(2)

\* llm.js:471  the existing image of an item is of high value
HighValueImage(item) ==
  ~Falsy(Get(item, "image")) /\ ~isLikelyLowValueImageUrl(Get(item, "image"))

\* C35: with force unset the generator is never invoked for an item whose
\* image is of high value, and that item is returned with image,
\* image_fallback and generated_image unchanged; with force set such an item
\* is passed to the generator while the cap max is not reached.
C35_HighValueImagesKept ==
  (epPc \in {"loop", "done"} /\ epItems # NotAnArray) =>
    \A k \in 1..Len(updatedItems) :
      HighValueImage(epItems[k]) =>
        /\ ~epForce => /\ epTried[k] = NotTried
                       /\ updatedItems[k] = epItems[k]
        /\ (epForce /\ GeneratedBefore(k) < epMax) => epTried[k] # NotTried

\* C35 witness: force unset, the first item has a picture and a fallback of
\* its own and is returned as it was without a generator call; the second
\* item has a logo only and got a generated image.
C35_Witness ==
  /\ epPc = "done"
  /\ ~epForce
  /\ Len(epItems) = 2
  /\ epItems[1] = [title |-> <<"a">>, image |-> PhotoImage, image_fallback |-> LogoImage]
  /\ epTried[1] = NotTried
  /\ epResult[1] = epItems[1]
  /\ epItems[2].image = LogoImage
  /\ GenerationSucceeded(2)

\* With force set an item with a picture was passed to the generator and
\* keeps its picture next to the generated image
ForcedHighValue ==
  /\ epPc = "done"
  /\ epForce
  /\ \E k \in 1..Len(epItems) :
       /\ HighValueImage(epItems[k])
       /\ GenerationSucceeded(k)
       /\ epResult[k].image = epItems[k].image
       /\ epResult[k].generated_image = epTried[k]


(***************************************************************************)
(* The planner for a request in web-search wording.                        *)
(***************************************************************************)
\* The urls of the enriched sources
EnrichedUrls == {enrichedSources[k].url : k \in 1..Len(enrichedSources)}

\* C36: when the last user text matches the web-search wording, the planner
\* builds the plan's items from the enriched sources and drops the items
\* the model returned, also a non-empty list of them: there is one item per
\* source (6 at most), in the order of the sources, each with the url of its
\* source as source_url; without sources the plan has no items.
C36_SearchWordingRebuildsItems ==
  (plPc = "planned" /\ wantsWebSearchFromText(plUserText)) =>
    /\ basePlan = buildItemsFromSources(enrichedSources, SourceItemsMax)
    /\ planWithImages # NotAnArray
    /\ Len(planWithImages) = Min({SourceItemsMax, Len(enrichedSources)})
    /\ \A i \in 1..Len(planWithImages) :
         /\ planWithImages[i].source_url = enrichedSources[i].url
         /\ planWithImages[i].source_url \in EnrichedUrls
    /\ enrichedSources = <<>> => planWithImages = <<>>

\* C36 witness: the text asks for news, the model returned two items, one
\* of them with a url that is no source's; the plan has one item per source
\* and none of the model's.
C36_Witness ==
  /\ plPc = "planned"
  /\ plUserText = <<"News", "Create image">>
  /\ Len(plItems) = 2
  /\ plItems # NotAnArray
  /\ plItems[2].source_url = UX
  /\ Len(enrichedSources) = 2
  /\ Len(planWithImages) = 2
  /\ planWithImages[1].source_url = enrichedSources[1].url
  /\ planWithImages[2].source_url = enrichedSources[2].url

\* Search wording, items from the model and no sources: the plan is empty
SearchWordingWithoutSources ==
  /\ plPc = "planned"
  /\ wantsWebSearchFromText(plUserText)
  /\ plItems # NotAnArray
  /\ Len(plItems) = 2
  /\ enrichedSources = <<>>
  /\ planWithImages = <<>>

\* Without search wording the items of the model are kept
ModelItemsKept ==
  /\ plPc = "planned"
  /\ ~wantsWebSearchFromText(plUserText)
  /\ plItems # NotAnArray
  /\ Len(plItems) = 2
  /\ basePlan = plItems


(***************************************************************************)
(* The generate endpoints POST / and POST /stream: one repair pass at most.*)
(***************************************************************************)
\* The request has a body with a messages array
MessagesValid == rtBody # NoBody /\ rtBody.messages \notin {Missing, NotAnArray}

\* A result of the pipeline has no sandbox variant with code
LacksSandboxCode(result) ==
  \A i \in 1..Len(result.parsed) :
    \/ result.parsed[i].type # Str("sandbox")
    \/ "code" \notin DOMAIN result.parsed[i]
    \/ result.parsed[i].code = Absent

\* The calls of callLLM of one handler that is at its second call or done
RepairPassShape(calls) ==
  /\ Len(calls) \in {1, 2}
  /\ calls[1] = rtBody.messages
  /\ Len(calls) = 2 <=> (stScript[1].kind = "return" /\ LacksSandboxCode(stScript[1].value))
  /\ Len(calls) = 2 =>
       calls[2] = rtBody.messages \o
                    <<AssistantMessage(stScript[1].value.content), RetryMessage>>

\* C37: POST / and POST /stream call the pipeline at most twice per request;
\* the second call, with the assistant's output and one corrective user
\* message appended, is made exactly when the first result has no sandbox
\* variant with code; when it returns, its result is the handler's answer
\* whether or not it has a sandbox variant: the JSON response of POST /, and
\* on POST /stream the result event, which is written unless the client has
\* closed the connection (then no result is written at all).  A request
\* whose messages field is not an array is answered with status 400 without
\* any pipeline call.
C37_AtMostOneRepairPass ==
  /\ Len(rtCalls) <= 2 /\ Len(stCalls) <= 2
  /\ (rtBody # NoBody /\ ~MessagesValid) =>
       /\ rtCalls = <<>> /\ stCalls = <<>>
       /\ rtPc = "done" => rtResponses = <<ErrorResponse(400, "Messages array required")>>
       /\ stPc = "done" => stResponses = <<ErrorResponse(400, "Messages array required")>>
  /\ (MessagesValid /\ rtPc \in {"second", "done"}) => RepairPassShape(rtCalls)
  /\ (MessagesValid /\ stPc \in {"second", "done"}) => RepairPassShape(stCalls)
  /\ (MessagesValid /\ rtPc = "done" /\ Len(rtCalls) = 2 /\ stScript[2].kind = "return") =>
       rtResponses = <<ResultResponse(stScript[2].value)>>
  /\ (MessagesValid /\ stPc = "done" /\ Len(stCalls) = 2 /\ stScript[2].kind = "return") =>
       EventsOf(stEvents, "result") =
         IF stClosed THEN <<>> ELSE <<SseEvent("result", ResultPayload(stScript[2].value))>>

\* C37 witness: both handlers made the repair pass; the second result is
\* plain words without sandbox, and it is the response of POST / and the
\* result event of the stream.
C37_Witness ==
  /\ BothDone
  /\ ~stClosed
  /\ Len(rtCalls) = 2
  /\ Len(stCalls) = 2
  /\ Len(rtCalls[2]) = Len(rtBody.messages) + 2
  /\ stScript[2].kind = "return"
  /\ LacksSandboxCode(stScript[2].value)
  /\ rtResponses = <<ResultResponse(stScript[2].value)>>
  /\ EventsOf(stEvents, "result") = <<SseEvent("result", ResultPayload(stScript[2].value))>>

\* The first result had sandbox code: one call, no repair pass
NoRepairPassNeeded ==
  /\ BothDone
  /\ MessagesValid
  /\ Len(rtCalls) = 1
  /\ Len(stCalls) = 1
  /\ stScript[1].kind = "return"
  /\ rtResponses = <<ResultResponse(stScript[1].value)>>

\* A messages field that is not an array: status 400 from both, no call
NotAnArrayRejected ==
  /\ BothDone
  /\ rtBody # NoBody
  /\ rtBody.messages = NotAnArray
  /\ rtCalls = <<>>
  /\ stCalls = <<>>
  /\ rtResponses[1].status = 400
  /\ stResponses[1].status = 400


(***************************************************************************)
(* POST /stream: the client's close event against the pipeline settling.   *)
(***************************************************************************)
\* The terminal events written so far
TerminalEvents == {i \in 1..Len(stEvents) : stEvents[i].event \in {"result", "error"}}

\* The state part: the order and number of events, the end of the response
\* and the ping timer, for a request whose event stream was opened
StreamEventsInOrder ==
  /\ (MessagesValid /\ stPc \in {"first", "second", "done"}) =>
       /\ stEvents # <<>>
       /\ stEvents[1] = SseEvent("ready", [ok |-> TRUE])
  /\ (MessagesValid /\ stPc # "done") =>
       /\ TerminalEvents = {}
       /\ ~stEnded
  /\ (MessagesValid /\ stPc = "done" /\ ~stClosed) =>
       /\ TerminalEvents = {Len(stEvents)}
       /\ stEnded
  /\ (MessagesValid /\ stPc = "done" /\ stClosed) =>
       /\ TerminalEvents = {}
       /\ ~stEnded
  /\ (MessagesValid /\ stPc = "done") => stPingTimer = "cleared"
  /\ stClosed => stPingTimer = "cleared"
  /\ stPc = "done" => stPingTimer # "running"

\* C38: on POST /stream, however the client's close event interleaves with
\* the pipeline's completion or failure: 'ready' is the first event written;
\* if the client has not closed, exactly one terminal event ('result' or
\* 'error') is written, as the last event, and the response is ended; if the
\* client closed before the pipeline settled, no terminal event is written
\* and the handler does not end the response; the ping timer is cleared in
\* every case, and no event is written after the response has ended.
C38_CloseAgainstSettle ==
  /\ []StreamEventsInOrder
  /\ [][stEnded => stEvents' = stEvents]_vars

\* C38 witness: the client closed during the repair pass, after a ping; the
\* handler finished without terminal event and without ending the response
C38_Witness ==
  /\ stPc = "done"
  /\ MessagesValid
  /\ stClosed
  /\ Len(stCalls) = 2
  /\ stEvents = <<SseEvent("ready", [ok |-> TRUE]), Ping>>
  /\ ~stEnded
  /\ stPingTimer = "cleared"

\* The client stayed: ready, a ping, one error event, and the end
FailureWhileConnected ==
  /\ stPc = "done"
  /\ MessagesValid
  /\ ~stClosed
  /\ Len(stEvents) = 3
  /\ stEvents[2] = Ping
  /\ stEvents[3].event = "error"
  /\ stEnded
  /\ stPingTimer = "cleared"


(***************************************************************************)
(* The client chat state: sendMessage and repairError of ChatContext.jsx,  *)
(* started by the form of ChatInterface.jsx and by the Auto-fix button of  *)
(* SandboxPreview.jsx.                                                     *)
(***************************************************************************)
\* The calls started in one session are counted up to this bound
MaxRequests == 4

\* How a sendMessage ends: with an app that runs, with an app that raises a
\* runtime error in the preview, with a message only, or with an exception
SendOutcomes == {"app", "broken app", "message", "failure"}

\* How a repairError ends: with a fix that runs, a fix that still raises an
\* error, or with an exception
RepairOutcomes == {"app", "broken app", "failure"}

\* ChatContext.jsx:29-30  the reducer's SET_LOADING
SetLoading(payload) == payload

\* ChatInterface.jsx:18-28 and ChatContext.jsx:80-87  the form is submitted:
\* nothing happens while isLoading; else sendMessage adds the user message,
\* sets isLoading and clears the error before its first await
HandleSubmit ==
  /\ ~clLoading
  /\ clStarted < MaxRequests
  /\ clStarted' = clStarted + 1
  /\ clInFlight' = clInFlight \cup {[id |-> clStarted + 1, op |-> "sendMessage"]}
  /\ clMessages' = Append(clMessages, "user")
  /\ clLoading' = SetLoading(TRUE)
  /\ clError' = "none"
  /\ UNCHANGED clBanner
  /\ ClientOnly

\* ChatContext.jsx:89-339  a sendMessage finishes: the assistant message and
\* the app of a successful answer, the error of a failed one, and in every
\* case SET_LOADING false in the finally block
SendSettles ==
  \E r \in clInFlight, outcome \in SendOutcomes :
    /\ r.op = "sendMessage"
    /\ clInFlight' = clInFlight \ {r}
    /\ clMessages' = IF outcome = "failure" THEN clMessages
                     ELSE Append(clMessages, "assistant")
    /\ clError' = IF outcome = "failure" THEN "failed" ELSE clError
    /\ clBanner' = IF outcome \in {"app", "broken app"} THEN outcome = "broken app"
                   ELSE clBanner
    /\ clLoading' = SetLoading(FALSE)
    /\ UNCHANGED clStarted
    /\ ClientOnly

\* SandboxPreview.jsx:141-152 and ChatContext.jsx:342-344  the Auto-fix
\* button of the error banner is clicked: repairError sets isLoading
AutoFix ==
  /\ clBanner
  /\ clStarted < MaxRequests
  /\ clStarted' = clStarted + 1
  /\ clInFlight' = clInFlight \cup {[id |-> clStarted + 1, op |-> "repairError"]}
  /\ clLoading' = SetLoading(TRUE)
  /\ UNCHANGED <<clMessages, clError, clBanner>>
  /\ ClientOnly

\* ChatContext.jsx:346-398  a repairError finishes: the fixed app replaces
\* the one shown, and in every case SET_LOADING false in the finally block
RepairSettles ==
  \E r \in clInFlight, outcome \in RepairOutcomes :
    /\ r.op = "repairError"
    /\ clInFlight' = clInFlight \ {r}
    /\ clBanner' = IF outcome = "failure" THEN clBanner ELSE outcome = "broken app"
    /\ clLoading' = SetLoading(FALSE)
    /\ UNCHANGED <<clStarted, clMessages, clError>>
    /\ ClientOnly

ClientNext == HandleSubmit \/ SendSettles \/ AutoFix \/ RepairSettles

SpecClient == InitAll /\ [][ClientNext]_vars

\* C39: isLoading is true whenever a sendMessage or a repairError is in
\* flight, under every interleaving of the two, and it is false once none is
\* in flight; the completion of one operation does not set isLoading to
\* false while the other is still running.
C39_LoadingWhileInFlight == clLoading <=> clInFlight # {}

\* C39 fails: the first answer was an app with a runtime error; during the
\* second sendMessage the Auto-fix button was clicked and that repairError
\* has finished: the sendMessage is still running and isLoading is false
C39_Failure ==
  /\ ~clLoading
  /\ clStarted = 3
  /\ clInFlight = {[id |-> 2, op |-> "sendMessage"]}
  /\ clMessages = <<"user", "assistant", "user">>

\* What the code does keep: isLoading is true only while a call is in flight
LoadingOnlyWhileInFlight == clLoading => clInFlight # {}

\* Two sendMessage calls in flight: the second was submitted after a
\* repairError that ended in between had reset isLoading
SecondSendWhileFirstRuns ==
  \E a, b \in clInFlight : a.op = "sendMessage" /\ b.op = "sendMessage" /\ a # b


(***************************************************************************)
(* The image policy of the calls of callLLM made by POST / and by          *)
(* generateWithRepair.                                                     *)
(***************************************************************************)
\* The message lists handed to callLLM so far
ListsHandedToCallLLM ==
  {rtCalls[k] : k \in 1..Len(rtCalls)} \cup {gwCalls[k].messages : k \in 1..Len(gwCalls)}

\* The last user message with non-empty text of a list, if there is one
LastTextMessage(messages) ==
  LET I == {i \in 1..Len(messages) :
              messages[i].role = "user" /\ messages[i].content # <<>>}
  IN IF I = {} THEN <<>> ELSE <<messages[Max(I)]>>

\* No part of a pipeline call under this policy invokes the image generator
NoImageGenerated(policy) ==
  /\ \A web \in BOOLEAN, planItems \in {"empty", "needImage", "haveImage"} :
       FlowImageCalls(policy, web, planItems) = {}
  /\ ToolImageCalls(<<"generate_image">>, AllowsImages(policy)) = {}

\* C40: the image policy of a pipeline call depends only on the last user
\* message with non-empty text of the list handed to callLLM: two lists that
\* agree on it get the same policy.  In the repair pass of POST / and in
\* every attempt of generateWithRepair after a failed one the policy is
\* {none, 0} and no image is generated, whatever the caller's messages were.
C40_PolicyFromLastUserMessage ==
  /\ \A a, b \in ListsHandedToCallLLM :
       LastTextMessage(a) = LastTextMessage(b) => FlowImagePolicy(a) = FlowImagePolicy(b)
  /\ \A k \in 2..Len(rtCalls) :
       /\ FlowImagePolicy(rtCalls[k]) = Policy("none", 0)
       /\ NoImageGenerated(FlowImagePolicy(rtCalls[k]))
  /\ \A k \in 2..Len(gwCalls) :
       /\ FlowImagePolicy(gwCalls[k].messages) = Policy("none", 0)
       /\ NoImageGenerated(FlowImagePolicy(gwCalls[k].messages))

\* C40 witness: the request asked for an image, so the first call of POST /
\* had the policy {explicit, 3}; the repair pass was made with the corrective
\* message last
C40_Witness ==
  /\ rtRoute = "/"
  /\ rtPc = "done"
  /\ Len(rtCalls) = 2
  /\ rtCalls[1] = <<UserImageAsk>>
  /\ FlowImagePolicy(rtCalls[1]) = Policy("explicit", ExplicitMax)
  /\ LastTextMessage(rtCalls[2]) = <<RetryMessage>>

\* generateWithRepair on an image request: the second and the third attempt
\* see the corrective instruction
RepairAttemptsAfterImageAsk ==
  /\ Len(gwCalls) = 3
  /\ gwCalls[1].messages = <<UserImageAsk>>
  /\ FlowImagePolicy(gwCalls[1].messages) = Policy("explicit", ExplicitMax)
  /\ LastTextMessage(gwCalls[3].messages) = <<CorrectiveMessage>>

\* A blank last user message is skipped: the request before it decides
BlankMessageSkipped ==
  /\ Len(rtCalls) = 1
  /\ Len(rtCalls[1]) = 3
  /\ rtCalls[1][3] = BlankUserMessage
  /\ FlowImagePolicy(rtCalls[1]) = Policy("explicit", ExplicitMax)

====
